---- MODULE Spec2Model ----
(***************************************************************************)
(* Interaction gateway of elysia-cloudflare-worker: the POST /interaction  *)
(* route (src/src/routes/main.ts), the request gate withDiscordInteraction *)
(* (src/src/lib/discord/discordHelper.ts), the custom-id codec             *)
(* (src/src/lib/discord/componentHelper.ts), the handler registry          *)
(* (src/src/lib/discord/loader.ts) and the cooldown throttle               *)
(* (checkCooldown in main.ts).                                             *)
(*                                                                         *)
(* Conventions.  An optional JavaScript value is a sequence of length 0    *)
(* (undefined) or 1.  Strings that the code splits or concatenates are     *)
(* sequences of one-character strings.  Times are milliseconds.            *)
(***************************************************************************)
EXTENDS Integers, Sequences, FiniteSets, TLC

VARIABLES
    registry,    \* loader.ts:148-151  the four identifier-keyed maps of the InteractionLoader
    slot,        \* per request in flight: position in the route handler, request, interaction, response
    cooldowns,   \* main.ts:15  Map<handlerType_handlerId, Map<userId, timestamp>>
    timers,      \* pending setTimeout callbacks of checkCooldown (main.ts:45)
    now,         \* Date.now()
    arrivals,    \* number of requests received so far
    call,        \* componentHelper.ts: a helper applied to arguments, and its result
    loading      \* loader.ts: the handler modules there are, and how far loadAll has come

vars == <<registry, slot, cooldowns, timers, now, arrivals, call, loading>>

----------------------------------------------------------------------------
(* Bounds of the model *)

MaxNow == 2000
MaxArrivals == 2
MaxIdLen == 2
MaxArgLen == 1
MaxArgs == 2
MaxModules == 2
MaxLoads == 2
MaxRows == 2
MaxFields == 2
MaxTextLen == 2
SigBytes == 2
KeyBytes == 1

(* Program constants *)

MsPerSecond == 1000
Ephemeral == 64
ChannelMessageWithSource == 4
PingType == 1
ApplicationCommandType == 2
MessageComponentType == 3
AutocompleteType == 4
ModalSubmitType == 5
ButtonComponent == 2
StringSelectComponent == 3
ChannelSelectComponent == 8
TextInput == 4

----------------------------------------------------------------------------
(* Optional values *)

None == <<>>
Some(v) == <<v>>
IsSome(o) == Len(o) = 1
Get(o) == o[1]

----------------------------------------------------------------------------
(* Application config: app.ts customBots.  The repository ships the keys   *)
(* blank; two configured applications stand for a filled-in mapping.       *)

customBots ==
    [a \in {"A1", "A2"} |->
        [clientId |-> a, publicKey |-> Some(IF a = "A1" THEN "pkA1" ELSE "pkA2")]]

\* customBots is an object literal: a property read also finds the members
\* inherited from Object.prototype, which are truthy and have no publicKey.
InheritedKeys == {"constructor"}

LookupBot(application_id) ==
    IF application_id \in DOMAIN customBots
    THEN Some(customBots[application_id])
    ELSE IF application_id \in InheritedKeys
         THEN Some([clientId |-> "", publicKey |-> None])
         ELSE None

\* The secret key whose signatures verify under a public key.
SecretOf(pk) == IF pk = "pkA1" THEN "skA1" ELSE IF pk = "pkA2" THEN "skA2" ELSE "skNone"

----------------------------------------------------------------------------
(* Strings *)

Chars == {"a", "b", ":"}

\* String.prototype.split(':') : the segments between the colons, at least one.
RECURSIVE SplitFrom(_, _, _)
SplitFrom(str, i, cur) ==
    IF i > Len(str) THEN <<cur>>
    ELSE IF str[i] = ":" THEN <<cur>> \o SplitFrom(str, i + 1, <<>>)
         ELSE SplitFrom(str, i + 1, Append(cur, str[i]))

Split(str) == SplitFrom(str, 1, <<>>)

\* as parseCustomId, with `.filter(Boolean)` after the split
parseCustomIdDropsEmpty(customId) ==
    LET parts == Split(customId)
        kept == SelectSeq(Tail(parts), LAMBDA p : p # <<>>)
    IN  [id |-> parts[1], args |-> kept]

\* as parseCustomId, with `split(':', 2)`
parseCustomIdLimit2(customId) ==
    LET parts == Split(customId)
    IN  [id |-> parts[1], args |-> IF Len(parts) >= 2 THEN <<parts[2]>> ELSE <<>>]

parseCustomId(customId) ==
    LET parts == Split(customId)
    IN  [id |-> parts[1], args |-> Tail(parts)]

\* Array.prototype.join(':')
RECURSIVE Join(_)
Join(args) ==
    IF Len(args) = 0 THEN <<>>
    ELSE IF Len(args) = 1 THEN args[1]
         ELSE args[1] \o <<":">> \o Join(Tail(args))

\* as buildCustomId, without the test for no arguments
buildCustomIdAlwaysColon(baseId, args) == baseId \o <<":">> \o Join(args)

buildCustomId(baseId, args) ==
    IF Len(args) = 0 THEN baseId
    ELSE baseId \o <<":">> \o Join(args)

\* String.prototype.startsWith
StartsWith(str, prefix) ==
    Len(prefix) <= Len(str) /\ SubSeq(str, 1, Len(prefix)) = prefix

\* as matchesCustomId, with a plain prefix match
matchesCustomIdPrefix(fullCustomId, baseId) ==
    fullCustomId = baseId \/ StartsWith(fullCustomId, baseId)

\* as matchesCustomId, for the custom id without arguments only
matchesCustomIdExactly(fullCustomId, baseId) == fullCustomId = baseId

matchesCustomId(fullCustomId, baseId) ==
    fullCustomId = baseId \/ StartsWith(fullCustomId, baseId \o <<":">>)

----------------------------------------------------------------------------
(* Requests *)

\* JSON.parse: the value a body text denotes; throws when it denotes none.
CanParse(text) == IsSome(text.json)
JsonParse(text) == Get(text.json)

\* JSON.stringify: the compact text of a value, whatever text it was parsed from.
JsonStringify(value) == [json |-> Some(value), fmt |-> "compact"]

\* main.ts:57.  The framework hands the route the body text itself, or, for a
\* JSON content type, the value parsed from it; the route stringifies the latter.
BodyString(req) ==
    IF req.contentType = "json" THEN JsonStringify(JsonParse(req.raw)) ELSE req.raw

\* tweetnacl sign.detached: the signature of a secret key over timestamp + body.
Sign(sk, timestamp, rawBody) ==
    [signer |-> sk, ts |-> timestamp, body |-> rawBody, wellFormed |-> TRUE]

\* discordHelper.ts:31-37.  nacl.sign.detached.verify throws on a signature or
\* key of the wrong size (Buffer.from(x, "hex") of malformed hex is too short),
\* and Buffer.from(undefined) throws.
verifyHeaders(timestamp, rawBody, signature, public_key) ==
    IF ~IsSome(public_key) \/ ~signature.wellFormed THEN "throws"
    ELSE IF /\ signature.signer = SecretOf(Get(public_key))
            /\ signature.ts = timestamp
            /\ signature.body = rawBody
         THEN "true" ELSE "false"

----------------------------------------------------------------------------
(* discordHelper.ts:31-37 on the texts of the headers.  An Ed25519 signature *)
(* and a public key are byte strings of fixed lengths (SigBytes and KeyBytes *)
(* here); a byte is a pair of hexadecimal digits, and the digits of the      *)
(* signature of a key over a message are the digits of no other signature.   *)

SecretKeys == {"skA1", "skA2"}

Digit(key, msg, at, flipped) ==
    [key |-> key, msg |-> msg, at |-> at, flipped |-> flipped]

\* nacl.sign.detached(msg, secretKey)
SignDetached(secretKey, msg) ==
    [i \in 1..SigBytes |-> <<Digit(secretKey, msg, 2 * i - 1, FALSE),
                             Digit(secretKey, msg, 2 * i, FALSE)>>]

\* the public key of a key pair
PublicKeyOf(secretKey) ==
    [i \in 1..KeyBytes |-> <<Digit(secretKey, <<>>, 2 * i - 1, FALSE),
                             Digit(secretKey, <<>>, 2 * i, FALSE)>>]

\* A character of a header: a hexadecimal digit in lower or upper case, or a
\* character that is no hexadecimal digit.
HexChar(digit, upper, hex) == [digit |-> digit, upper |-> upper, hex |-> hex]

\* the hex text of bytes, as the platform sends it and the config holds it
ToHex(bytes) ==
    [k \in 1..(2 * Len(bytes)) |->
        HexChar(bytes[(k + 1) \div 2][2 - (k % 2)], FALSE, TRUE)]

\* Buffer.from(text, "hex"): one byte for every two digits, whatever their
\* case, up to the first pair that is not two hexadecimal digits; a last
\* single character is dropped.
RECURSIVE BufferFromHex(_)
BufferFromHex(text) ==
    IF Len(text) < 2 \/ ~text[1].hex \/ ~text[2].hex THEN <<>>
    ELSE <<<<text[1].digit, text[2].digit>>>> \o BufferFromHex(Tail(Tail(text)))

\* nacl.sign.detached.verify(msg, sig, publicKey): throws on a signature or a
\* key of the wrong size.
DetachedVerify(msg, sig, publicKey) ==
    IF Len(sig) # SigBytes \/ Len(publicKey) # KeyBytes THEN "throws"
    ELSE IF \E secretKey \in SecretKeys :
                /\ publicKey = PublicKeyOf(secretKey)
                /\ sig = SignDetached(secretKey, msg)
         THEN "true" ELSE "false"

\* as verifyHeadersOfTexts, with the message being the body alone
verifyHeadersOfBodyOnly(timestamp, rawBody, signature, public_key) ==
    DetachedVerify(rawBody, BufferFromHex(signature), BufferFromHex(public_key))

\* discordHelper.ts:31-37
verifyHeadersOfTexts(timestamp, rawBody, signature, public_key) ==
    DetachedVerify(timestamp \o rawBody, BufferFromHex(signature),
                   BufferFromHex(public_key))

----------------------------------------------------------------------------
(* Command registration: discordHelper.ts:138-196, registerCommands.ts *)

\* What the platform's command API answered: a status and a body text.
ApiAnswer(status, text) == [status |-> status, text |-> text]

\* Response.ok
Ok(answer) == answer.status >= 200 /\ answer.status <= 299

\* What an awaited call came to: a value returned or an error thrown.  An
\* Error of the two API functions has the status and the body text in its
\* message.
Returned(value) ==
    [kind |-> "return", value |-> Some(value), error |-> "", status |-> 0,
     text |-> None]
ReturnedNothing ==
    [kind |-> "return", value |-> None, error |-> "", status |-> 0, text |-> None]
Threw(error, status, text) ==
    [kind |-> "throw", value |-> None, error |-> error, status |-> status,
     text |-> text]

\* as bulkOverwriteGlobalCommands, without the test of response.ok
bulkOverwriteGlobalCommandsUnchecked(answer) ==
    IF CanParse(answer.text) THEN Returned(JsonParse(answer.text))
    ELSE Threw("SyntaxError", 0, None)

\* discordHelper.ts:138-154
createGlobalCommand(answer) ==
    IF ~Ok(answer) THEN Threw("Failed to create command", answer.status,
                              Some(answer.text))
    ELSE IF CanParse(answer.text) THEN Returned(JsonParse(answer.text))
    ELSE Threw("SyntaxError", 0, None)              \* response.json() rejects

\* discordHelper.ts:180-196
bulkOverwriteGlobalCommands(answer) ==
    IF ~Ok(answer) THEN Threw("Failed to bulk register commands", answer.status,
                              Some(answer.text))
    ELSE IF CanParse(answer.text) THEN Returned(JsonParse(answer.text))
    ELSE Threw("SyntaxError", 0, None)              \* response.json() rejects

\* registerCommands.ts:52-76: the catch logs and throws the error on; a
\* result that is no array has no forEach.
registerCommands(answer) ==
    LET result == bulkOverwriteGlobalCommands(answer) IN
    IF result.kind = "throw" THEN result
    ELSE IF ~Get(result.value).isArray THEN Threw("TypeError", 0, None)
    ELSE ReturnedNothing

----------------------------------------------------------------------------
(* Responses *)

Body(tag, type, flags) ==
    [tag |-> tag, type |-> type, flags |-> flags,
     name |-> None, timeLeft |-> 0, message |-> "", area |-> ""]

\* lib/respond: a Response with the status and the JSON of the body.
respond(status, body) == [status |-> status, body |-> body]

\* The route handler returned undefined: no Response was built.
NoResponse == [status |-> 0, body |-> Body("none", 0, 0)]

GateResponse(resp) ==
    [isResponse |-> TRUE, resp |-> resp, interaction |-> None, bot |-> None]

GatePass(interaction, bot) ==
    [isResponse |-> FALSE, resp |-> NoResponse,
     interaction |-> Some(interaction), bot |-> Some(bot)]

----------------------------------------------------------------------------
(* discordHelper.ts:77-111 *)

\* as withDiscordInteraction, without the return on an invalid signature
withDiscordInteractionUnchecked(body, sig, timestamp) ==
    IF ~IsSome(sig) \/ ~IsSome(timestamp)
    THEN GateResponse(respond(401, Body("direct", 0, 0)))
    ELSE IF ~CanParse(body)
    THEN GateResponse(respond(500, Body("gateerror", 0, 0)))
    ELSE LET interaction == JsonParse(body) IN
    IF interaction.type = 0 \/ interaction.application_id = ""
    THEN GateResponse(respond(400, Body("invalid", 0, 0)))
    ELSE LET bot == LookupBot(interaction.application_id) IN
    IF ~IsSome(bot)
    THEN GateResponse(respond(404, Body("nobot", 0, 0)))
    ELSE LET isValid == verifyHeaders(Get(timestamp), body, Get(sig), Get(bot).publicKey) IN
    IF isValid = "throws"
    THEN GateResponse(respond(500, Body("gateerror", 0, 0)))
    ELSE IF interaction.type = PingType
    THEN GateResponse(respond(200, Body("pong", 1, 0)))
    ELSE GatePass(interaction, Get(bot))

withDiscordInteraction(body, sig, timestamp) ==
    IF ~IsSome(sig) \/ ~IsSome(timestamp)
    THEN GateResponse(respond(401, Body("direct", 0, 0)))
    ELSE IF ~CanParse(body)                      \* JSON.parse throws: catch
    THEN GateResponse(respond(500, Body("gateerror", 0, 0)))
    ELSE LET interaction == JsonParse(body) IN
    IF interaction.type = 0 \/ interaction.application_id = ""
    THEN GateResponse(respond(400, Body("invalid", 0, 0)))
    ELSE LET bot == LookupBot(interaction.application_id) IN
    IF ~IsSome(bot)
    THEN GateResponse(respond(404, Body("nobot", 0, 0)))
    ELSE LET isValid == verifyHeaders(Get(timestamp), body, Get(sig), Get(bot).publicKey) IN
    IF isValid = "throws"                        \* catch
    THEN GateResponse(respond(500, Body("gateerror", 0, 0)))
    ELSE IF isValid = "false"
    THEN GateResponse(respond(401, Body("badsig", 0, 0)))
    ELSE IF interaction.type = PingType
    THEN GateResponse(respond(200, Body("pong", 1, 0)))
    ELSE GatePass(interaction, Get(bot))

----------------------------------------------------------------------------
(* Cooldown throttle: main.ts:20-48 *)

\* the characters of the name of a handler kind
HandlerTypeText(handlerType) ==
    CASE handlerType = "command" -> <<"c", "o", "m", "m", "a", "n", "d">>
      [] handlerType = "button" -> <<"b", "u", "t", "t", "o", "n">>
      [] handlerType = "select" -> <<"s", "e", "l", "e", "c", "t">>
      [] handlerType = "modal" -> <<"m", "o", "d", "a", "l">>
      [] OTHER -> <<>>

\* as ThrottleKey, without the kind
ThrottleKeyOfIdentifier(handlerType, handlerId) == <<"_">> \o handlerId

\* main.ts:25  `${handlerType}_${handlerId}`
ThrottleKey(handlerType, handlerId) ==
    HandlerTypeText(handlerType) \o <<"_">> \o handlerId

\* as checkCooldown, with `timestamps.get(userId) ?? now` for the stamp: a user
\* without an entry is taken to have used the handler just now
checkCooldownBlocksFirst(handlerType, handlerId, userId, cooldownSeconds, cd, tm, t) ==
    IF ~IsSome(cooldownSeconds) \/ Get(cooldownSeconds) = 0
    THEN [onCooldown |-> FALSE, timeLeft |-> 0, cooldowns |-> cd, timers |-> tm]
    ELSE LET key == ThrottleKey(handlerType, handlerId)
             cooldownAmount == Get(cooldownSeconds) * MsPerSecond
             cd1 == IF key \in DOMAIN cd THEN cd ELSE (key :> <<>>) @@ cd
             timestamps == cd1[key]
             stamp == IF userId \in DOMAIN timestamps THEN timestamps[userId] ELSE t
         IN  IF t < stamp + cooldownAmount
             THEN [onCooldown |-> TRUE, timeLeft |-> stamp + cooldownAmount - t,
                   cooldowns |-> cd1, timers |-> tm]
             ELSE [onCooldown |-> FALSE, timeLeft |-> 0,
                   cooldowns |-> [cd1 EXCEPT ![key] = (userId :> t) @@ timestamps],
                   timers |-> tm \cup {[key |-> key, userId |-> userId,
                                        due |-> t + cooldownAmount]}]

\* as checkCooldown, with the stamp renewed by a throttled attempt
checkCooldownRestamps(handlerType, handlerId, userId, cooldownSeconds, cd, tm, t) ==
    IF ~IsSome(cooldownSeconds) \/ Get(cooldownSeconds) = 0
    THEN [onCooldown |-> FALSE, timeLeft |-> 0, cooldowns |-> cd, timers |-> tm]
    ELSE LET key == ThrottleKey(handlerType, handlerId)
             cooldownAmount == Get(cooldownSeconds) * MsPerSecond
             cd1 == IF key \in DOMAIN cd THEN cd ELSE (key :> <<>>) @@ cd
             timestamps == cd1[key]
         IN  IF /\ userId \in DOMAIN timestamps
                /\ t < timestamps[userId] + cooldownAmount
             THEN [onCooldown |-> TRUE,
                   timeLeft |-> timestamps[userId] + cooldownAmount - t,
                   cooldowns |-> [cd1 EXCEPT ![key] = (userId :> t) @@ timestamps],
                   timers |-> tm]
             ELSE [onCooldown |-> FALSE, timeLeft |-> 0,
                   cooldowns |-> [cd1 EXCEPT ![key] = (userId :> t) @@ timestamps],
                   timers |-> tm \cup {[key |-> key, userId |-> userId,
                                        due |-> t + cooldownAmount]}]

\* as checkCooldown, with `now <= expirationTime` for the test of the window
checkCooldownInclusive(handlerType, handlerId, userId, cooldownSeconds, cd, tm, t) ==
    IF ~IsSome(cooldownSeconds) \/ Get(cooldownSeconds) = 0
    THEN [onCooldown |-> FALSE, timeLeft |-> 0, cooldowns |-> cd, timers |-> tm]
    ELSE LET key == ThrottleKey(handlerType, handlerId)
             cooldownAmount == Get(cooldownSeconds) * MsPerSecond
             cd1 == IF key \in DOMAIN cd THEN cd ELSE (key :> <<>>) @@ cd
             timestamps == cd1[key]
         IN  IF /\ userId \in DOMAIN timestamps
                /\ t <= timestamps[userId] + cooldownAmount
             THEN [onCooldown |-> TRUE,
                   timeLeft |-> timestamps[userId] + cooldownAmount - t,
                   cooldowns |-> cd1, timers |-> tm]
             ELSE [onCooldown |-> FALSE, timeLeft |-> 0,
                   cooldowns |-> [cd1 EXCEPT ![key] = (userId :> t) @@ timestamps],
                   timers |-> tm \cup {[key |-> key, userId |-> userId,
                                        due |-> t + cooldownAmount]}]

\* as checkCooldown, with `cooldownSeconds === undefined` for the first test
checkCooldownZeroStamps(handlerType, handlerId, userId, cooldownSeconds, cd, tm, t) ==
    IF ~IsSome(cooldownSeconds)
    THEN [onCooldown |-> FALSE, timeLeft |-> 0, cooldowns |-> cd, timers |-> tm]
    ELSE LET key == ThrottleKey(handlerType, handlerId)
             cooldownAmount == Get(cooldownSeconds) * MsPerSecond
             cd1 == IF key \in DOMAIN cd THEN cd ELSE (key :> <<>>) @@ cd
             timestamps == cd1[key]
         IN  IF /\ userId \in DOMAIN timestamps
                /\ t < timestamps[userId] + cooldownAmount
             THEN [onCooldown |-> TRUE,
                   timeLeft |-> timestamps[userId] + cooldownAmount - t,
                   cooldowns |-> cd1, timers |-> tm]
             ELSE [onCooldown |-> FALSE, timeLeft |-> 0,
                   cooldowns |-> [cd1 EXCEPT ![key] = (userId :> t) @@ timestamps],
                   timers |-> tm \cup {[key |-> key, userId |-> userId,
                                        due |-> t + cooldownAmount]}]

\* as checkCooldown, with the stamp and its timer left to a later statement
\* (after the await of the handler): the check alone
checkCooldownCheckOnly(handlerType, handlerId, userId, cooldownSeconds, cd, tm, t) ==
    IF ~IsSome(cooldownSeconds) \/ Get(cooldownSeconds) = 0
    THEN [onCooldown |-> FALSE, timeLeft |-> 0, cooldowns |-> cd, timers |-> tm]
    ELSE LET key == ThrottleKey(handlerType, handlerId)
             cooldownAmount == Get(cooldownSeconds) * MsPerSecond
             cd1 == IF key \in DOMAIN cd THEN cd ELSE (key :> <<>>) @@ cd
             timestamps == cd1[key]
         IN  IF /\ userId \in DOMAIN timestamps
                /\ t < timestamps[userId] + cooldownAmount
             THEN [onCooldown |-> TRUE,
                   timeLeft |-> timestamps[userId] + cooldownAmount - t,
                   cooldowns |-> cd1, timers |-> tm]
             ELSE [onCooldown |-> FALSE, timeLeft |-> 0,
                   cooldowns |-> cd1, timers |-> tm]

\* as checkCooldown, with `setTimeout(..., cooldownSeconds)` for the removal
checkCooldownTimerInSeconds(handlerType, handlerId, userId, cooldownSeconds, cd, tm, t) ==
    IF ~IsSome(cooldownSeconds) \/ Get(cooldownSeconds) = 0
    THEN [onCooldown |-> FALSE, timeLeft |-> 0, cooldowns |-> cd, timers |-> tm]
    ELSE LET key == ThrottleKey(handlerType, handlerId)
             cooldownAmount == Get(cooldownSeconds) * MsPerSecond
             cd1 == IF key \in DOMAIN cd THEN cd ELSE (key :> <<>>) @@ cd
             timestamps == cd1[key]
         IN  IF /\ userId \in DOMAIN timestamps
                /\ t < timestamps[userId] + cooldownAmount
             THEN [onCooldown |-> TRUE,
                   timeLeft |-> timestamps[userId] + cooldownAmount - t,
                   cooldowns |-> cd1, timers |-> tm]
             ELSE [onCooldown |-> FALSE, timeLeft |-> 0,
                   cooldowns |-> [cd1 EXCEPT ![key] = (userId :> t) @@ timestamps],
                   timers |-> tm \cup {[key |-> key, userId |-> userId,
                                        due |-> t + Get(cooldownSeconds)]}]

\* as checkCooldown, without the setTimeout
checkCooldownWithoutTimer(handlerType, handlerId, userId, cooldownSeconds, cd, tm, t) ==
    IF ~IsSome(cooldownSeconds) \/ Get(cooldownSeconds) = 0
    THEN [onCooldown |-> FALSE, timeLeft |-> 0, cooldowns |-> cd, timers |-> tm]
    ELSE LET key == ThrottleKey(handlerType, handlerId)
             cooldownAmount == Get(cooldownSeconds) * MsPerSecond
             cd1 == IF key \in DOMAIN cd THEN cd ELSE (key :> <<>>) @@ cd
             timestamps == cd1[key]
         IN  IF /\ userId \in DOMAIN timestamps
                /\ t < timestamps[userId] + cooldownAmount
             THEN [onCooldown |-> TRUE,
                   timeLeft |-> timestamps[userId] + cooldownAmount - t,
                   cooldowns |-> cd1, timers |-> tm]
             ELSE [onCooldown |-> FALSE, timeLeft |-> 0,
                   cooldowns |-> [cd1 EXCEPT ![key] = (userId :> t) @@ timestamps],
                   timers |-> tm]

checkCooldown(handlerType, handlerId, userId, cooldownSeconds, cd, tm, t) ==
    IF ~IsSome(cooldownSeconds) \/ Get(cooldownSeconds) = 0
    THEN [onCooldown |-> FALSE, timeLeft |-> 0, cooldowns |-> cd, timers |-> tm]
    ELSE LET key == ThrottleKey(handlerType, handlerId)
             cooldownAmount == Get(cooldownSeconds) * MsPerSecond
             cd1 == IF key \in DOMAIN cd THEN cd ELSE (key :> <<>>) @@ cd
             timestamps == cd1[key]
         IN  IF /\ userId \in DOMAIN timestamps
                /\ t < timestamps[userId] + cooldownAmount
             THEN [onCooldown |-> TRUE,
                   timeLeft |-> timestamps[userId] + cooldownAmount - t,
                   cooldowns |-> cd1, timers |-> tm]
             ELSE [onCooldown |-> FALSE, timeLeft |-> 0,
                   cooldowns |-> [cd1 EXCEPT ![key] = (userId :> t) @@ timestamps],
                   timers |-> tm \cup {[key |-> key, userId |-> userId,
                                        due |-> t + cooldownAmount]}]

----------------------------------------------------------------------------
(* Handler registry: loader.ts *)

Descriptor(identifier, cooldown) ==
    [identifier |-> identifier, cooldown |-> cooldown, execute |-> "function"]

\* The maps after loader.loadAll() (main.ts:12) over a set of handler modules.
LoadedRegistry ==
    [commands |-> (<<"a">> :> Descriptor(<<"a">>, Some(1)))
                  @@ (<<"b">> :> Descriptor(<<"b">>, None)),
     buttons  |-> (<<"a">> :> Descriptor(<<"a">>, Some(1)))
                  @@ (<<"b">> :> Descriptor(<<"b">>, Some(0))),
     modals   |-> (<<"a">> :> Descriptor(<<"a">>, Some(1))),
     selects  |-> (<<"a">> :> Descriptor(<<"a">>, Some(1)))]

\* Map.prototype.get with a possibly undefined key
MapGet(map, key) ==
    IF IsSome(key) /\ Get(key) \in DOMAIN map THEN Some(map[Get(key)]) ELSE None

\* as getSelect, reading the map of the buttons
getSelectAmongButtons(customId) == MapGet(registry.buttons, customId)

getCommand(name) == MapGet(registry.commands, name)
getButton(customId) == MapGet(registry.buttons, customId)
getModal(customId) == MapGet(registry.modals, customId)
getSelect(customId) == MapGet(registry.selects, customId)

Kinds == {"commands", "buttons", "modals", "selects"}

\* new InteractionLoader(): loader.ts:148-151
EmptyRegistry == [kind \in Kinds |-> <<>>]

\* A handler module: whether importing it succeeds, and of its default export
\* the identifier (name or customId; undefined, or a string, which may be
\* empty), whether execute is a function, and the cooldown.
Module(loads, identifier, execute, cooldown) ==
    [loads |-> loads, identifier |-> identifier, execute |-> execute,
     cooldown |-> cooldown]

\* as Valid, for an identifier that is any string
ValidForAnyString(module) ==
    /\ IsSome(module.identifier)
    /\ module.execute = "function"

\* loader.ts:256, 289, 322, 355 and 169, 178, 187, 196
\*   x?.name && typeof x?.execute === 'function'
Valid(module) ==
    /\ IsSome(module.identifier)
    /\ Get(module.identifier) # <<>>
    /\ module.execute = "function"

\* as Insert, with `if (!map.has(id))` around the set
InsertKeepsFirst(map, module) ==
    IF Valid(module) /\ Get(module.identifier) \notin DOMAIN map
    THEN (Get(module.identifier) :> Descriptor(Get(module.identifier), module.cooldown))
         @@ map
    ELSE map

\* as Insert, with an identifier that is already taken treated as a conflict
\* and its entry deleted
InsertRejectsDuplicate(map, module) ==
    IF ~Valid(module) THEN map
    ELSE IF Get(module.identifier) \in DOMAIN map
         THEN [id \in DOMAIN map \ {Get(module.identifier)} |-> map[id]]
         ELSE (Get(module.identifier) :> Descriptor(Get(module.identifier), module.cooldown))
              @@ map

\* loader.ts:256-258  the validation and this.<kind>.set(identifier, handler)
Insert(map, module) ==
    IF Valid(module)
    THEN (Get(module.identifier) :> Descriptor(Get(module.identifier), module.cooldown))
         @@ map
    ELSE map

\* loader.ts:246-264  the scan of one directory: a module whose import
\* throws is logged and skipped
RECURSIVE Scan(_, _, _)
Scan(map, files, i) ==
    IF i > Len(files) THEN map
    ELSE Scan(IF files[i].loads THEN Insert(map, files[i]) ELSE map, files, i + 1)

\* loadCommands, loadButtons, loadModals, loadSelects (loader.ts:241-371): a
\* directory that does not exist makes glob.scan throw, which the outer catch
\* swallows.
loadKind(maps, kind, location) ==
    IF ~IsSome(location) THEN maps
    ELSE [maps EXCEPT ![kind] = Scan(@, Get(location), 1)]

\* manifest.ts, generated from the handler directories: one import statement
\* per handler file and one array of the default exports per kind.  The
\* import of the manifest fails when a module it imports fails.
Manifest(modules) ==
    [imports |-> \A kind \in Kinds :
                    IsSome(modules[kind])
                    => \A i \in 1..Len(Get(modules[kind])) : Get(modules[kind])[i].loads,
     arrays |-> [kind \in Kinds |->
                    IF IsSome(modules[kind]) THEN Get(modules[kind]) ELSE <<>>]]

RECURSIVE InsertAll(_, _, _)
InsertAll(map, entries, i) ==
    IF i > Len(entries) THEN map
    ELSE InsertAll(Insert(map, entries[i]), entries, i + 1)

\* loader.ts:162-207: a failure of the import leaves the maps as they are
loadFromManifest(maps, modules) ==
    LET manifest == Manifest(modules)
    IN  IF ~manifest.imports THEN maps
        ELSE [kind \in Kinds |-> InsertAll(maps[kind], manifest.arrays[kind], 1)]

\* The state of the loader: the handler modules, whether Bun is defined
\* (loadAll scans the directories) or not (loadAll takes the manifest), the
\* kinds whose scan loadAll is still awaiting, the populations completed and
\* whether registerCommands has run.
Loading(modules, bun, pending, runs, registered) ==
    [modules |-> modules, bun |-> bun, pending |-> pending, runs |-> runs,
     registered |-> registered]

\* The handler modules LoadedRegistry was loaded from.
ServedModules ==
    [commands |-> Some(<<Module(TRUE, Some(<<"a">>), "function", Some(1)),
                         Module(TRUE, Some(<<"b">>), "function", None)>>),
     buttons  |-> Some(<<Module(TRUE, Some(<<"a">>), "function", Some(1)),
                         Module(TRUE, Some(<<"b">>), "function", Some(0))>>),
     modals   |-> Some(<<Module(TRUE, Some(<<"a">>), "function", Some(1))>>),
     selects  |-> Some(<<Module(TRUE, Some(<<"a">>), "function", Some(1))>>)]

\* main.ts:12 has completed: requests are served.
Served == Loading(ServedModules, FALSE, {}, 1, FALSE)

----------------------------------------------------------------------------
(* POST /interaction, main.ts:55-255: the part that runs between the await  *)
(* of withDiscordInteraction and the await of the handler.                 *)

Outcome(kind, resp, cd, tm, handlerType, handlerId) ==
    [kind |-> kind, resp |-> resp, cooldowns |-> cd, timers |-> tm,
     handlerType |-> handlerType, handlerId |-> handlerId]

\* main.ts:251-254  the outer catch
InternalError(cd, tm) ==
    Outcome("respond", respond(500, Body("internal", 0, 0)), cd, tm, "", <<>>)

\* as NotFound, with the transport status of a missing resource
NotFoundAs404(area, name, cd, tm) ==
    Outcome("respond",
            respond(404, [Body("unknown", ChannelMessageWithSource, Ephemeral)
                            EXCEPT !.area = area, !.name = name]),
            cd, tm, "", <<>>)

\* main.ts:99-107, 148-156, 192-200, 241-249
NotFound(area, name, cd, tm) ==
    Outcome("respond",
            respond(200, [Body("unknown", ChannelMessageWithSource, Ephemeral)
                            EXCEPT !.area = area, !.name = name]),
            cd, tm, "", <<>>)

\* as Found, without the return on cooldown.onCooldown
FoundIgnoringCooldown(handlerType, area, descriptor, handlerId, userId, cd, tm, t) ==
    LET cooldown == checkCooldown(handlerType, handlerId, userId,
                                  descriptor.cooldown, cd, tm, t)
    IN  Outcome("invoke", NoResponse, cooldown.cooldowns, cooldown.timers,
                handlerType, handlerId)

\* main.ts:72-88, 120-136, 163-180, 212-229  up to the call of execute
Found(handlerType, area, descriptor, handlerId, userId, cd, tm, t) ==
    LET cooldown == checkCooldown(handlerType, handlerId, userId,
                                  descriptor.cooldown, cd, tm, t)
    IN  IF cooldown.onCooldown
        THEN Outcome("respond",
                     respond(200, [Body("slowdown", ChannelMessageWithSource, Ephemeral)
                                     EXCEPT !.area = area,
                                            !.timeLeft = cooldown.timeLeft]),
                     cooldown.cooldowns, cooldown.timers, handlerType, handlerId)
        ELSE Outcome("invoke", NoResponse, cooldown.cooldowns, cooldown.timers,
                     handlerType, handlerId)

\* as UserIdOf, with the member's user taken first
UserIdMemberFirst(interaction) ==
    IF IsSome(interaction.member) THEN interaction.member ELSE interaction.user

\* main.ts:75, 114, 208  user?.id || member?.user?.id
UserIdOf(interaction) ==
    IF IsSome(interaction.user) THEN interaction.user ELSE interaction.member

Dispatch(interaction, cd, tm, t) ==
    LET data == interaction.data
        userId == UserIdOf(interaction)
    IN
    IF interaction.type = ApplicationCommandType THEN
        IF ~IsSome(data) THEN InternalError(cd, tm)         \* data.name of undefined
        ELSE LET command == getCommand(Get(data).id) IN
             IF IsSome(command)
             THEN Found("command", "command", Get(command), Get(Get(data).id),
                        userId, cd, tm, t)
             ELSE NotFound("command", Get(data).id, cd, tm)
    ELSE IF interaction.type = MessageComponentType THEN
        IF ~IsSome(data) \/ ~IsSome(Get(data).id)
        THEN InternalError(cd, tm)                          \* parseCustomId throws
        ELSE LET id == parseCustomId(Get(Get(data).id)).id IN
             IF Get(data).component_type = ButtonComponent
             THEN LET button == getButton(Some(id)) IN
                  IF IsSome(button)
                  THEN Found("button", "button", Get(button), id, userId, cd, tm, t)
                  ELSE NotFound("button", None, cd, tm)
             ELSE LET select == getSelect(Some(id)) IN
                  IF IsSome(select)
                  THEN Found("select", "menu", Get(select), id, userId, cd, tm, t)
                  ELSE NotFound("menu", None, cd, tm)
    ELSE IF interaction.type = ModalSubmitType THEN
        IF ~IsSome(data) \/ ~IsSome(Get(data).id)
        THEN InternalError(cd, tm)                          \* parseCustomId throws
        ELSE LET id == parseCustomId(Get(Get(data).id)).id
                 modal == getModal(Some(id))
             IN  IF IsSome(modal)
                 THEN Found("modal", "form", Get(modal), id, userId, cd, tm, t)
                 ELSE NotFound("form", None, cd, tm)
    ELSE Outcome("respond", NoResponse, cd, tm, "", <<>>)   \* falls off the end

\* main.ts:87-98, 136-147, 180-191, 229-240  the awaited handler settles
Thrown == {"Error", "nullish"}
HandlerPayloads ==
    {[Body("payload", ChannelMessageWithSource, f) EXCEPT !.message = m] :
        f \in {0, Ephemeral}, m \in {"pong"}}
ErrorMessage == "boom"

\* as Settle, with the handler's payload always sent as an ephemeral message
SettleAsEphemeral(area, result) ==
    IF result.kind = "return"
    THEN respond(200, [result.payload EXCEPT !.flags = Ephemeral])
    ELSE IF result.thrown = "Error"
    THEN respond(200, [Body("error", ChannelMessageWithSource, Ephemeral)
                         EXCEPT !.area = area])
    ELSE respond(500, Body("internal", 0, 0))

Settle(area, result) ==
    IF result.kind = "return" THEN respond(200, result.payload)
    ELSE IF result.thrown = "Error"
    THEN respond(200, [Body("error", ChannelMessageWithSource, Ephemeral)
                         EXCEPT !.area = area])
    \* (error as Error).message of null or undefined throws inside the catch
    \* block; the outer catch answers
    ELSE respond(500, Body("internal", 0, 0))

AreaOf(handlerType) ==
    CASE handlerType = "command" -> "command"
      [] handlerType = "button" -> "button"
      [] handlerType = "select" -> "menu"
      [] OTHER -> "form"

\* a string a condition takes for true
Truthy(str) == IsSome(str) /\ Get(str) # ""

\* componentHelper.ts:101-106
extractSelectValues(interaction) ==
    IF IsSome(Get(interaction.data).values)
    THEN Get(Get(interaction.data).values)
    ELSE <<>>

\* as SetFields, for a component of any type
RECURSIVE SetFieldsAnyType(_, _, _)
SetFieldsAnyType(fields, components, i) ==
    IF i > Len(components) THEN fields
    ELSE LET component == components[i] IN
         SetFieldsAnyType(IF /\ Truthy(component.custom_id)
                             /\ Truthy(component.value)
                          THEN (Get(component.custom_id) :> Get(component.value)) @@ fields
                          ELSE fields,
                          components, i + 1)

\* componentHelper.ts:67-75  the components of one action row
RECURSIVE SetFields(_, _, _)
SetFields(fields, components, i) ==
    IF i > Len(components) THEN fields
    ELSE LET component == components[i] IN
         SetFields(IF /\ component.type = TextInput
                      /\ Truthy(component.custom_id)
                      /\ Truthy(component.value)
                   THEN (Get(component.custom_id) :> Get(component.value)) @@ fields
                   ELSE fields,
                   components, i + 1)

\* componentHelper.ts:65-76
RECURSIVE SetRows(_, _, _)
SetRows(fields, rows, i) ==
    IF i > Len(rows) THEN fields
    ELSE SetRows(IF IsSome(rows[i].components)
                 THEN SetFields(fields, Get(rows[i].components), 1)
                 ELSE fields,
                 rows, i + 1)

\* componentHelper.ts:58-79
extractModalFields(interaction) ==
    IF ~IsSome(Get(interaction.data).components) THEN <<>>
    ELSE SetRows(<<>>, Get(Get(interaction.data).components), 1)

\* What execute is called with after the interaction: nothing for a command
\* (main.ts:87) and a button (main.ts:136), the values for a select menu
\* (main.ts:178-180), the fields for a modal (main.ts:227-229).
Input(values, fields) == [values |-> values, fields |-> fields]
NoInput == Input(None, None)

HandlerInput(interaction) ==
    IF /\ interaction.type = MessageComponentType
       /\ Get(interaction.data).component_type # ButtonComponent
    THEN Input(Some(extractSelectValues(interaction)), None)
    ELSE IF interaction.type = ModalSubmitType
    THEN Input(None, Some(extractModalFields(interaction)))
    ELSE NoInput

----------------------------------------------------------------------------
(* Inputs *)

Interaction(type, application_id, data, user, member) ==
    [type |-> type, application_id |-> application_id, data |-> data,
     user |-> user, member |-> member]

\* data.name of a command, data.custom_id of a component or a modal; only a
\* message component carries a component_type.
DataOf(ids) ==
    {None} \cup
    {Some([id |-> i, component_type |-> c, values |-> None, components |-> None]) :
        i \in ids, c \in {0, ButtonComponent, StringSelectComponent}}

WellShaped(interaction) ==
    IsSome(interaction.data) =>
        ((interaction.type = MessageComponentType)
            <=> (Get(interaction.data).component_type # 0))

Interactions(types, apps, ids, users) ==
    {i \in {Interaction(ty, ap, d, u[1], u[2]) :
                ty \in types, ap \in apps, d \in DataOf(ids), u \in users} :
        WellShaped(i)}

Texts(values, fmts) ==
    {[json |-> Some(v), fmt |-> f] : v \in values, f \in fmts}

Unparseable == [json |-> None, fmt |-> "compact"]

\* What a sender can have signed: the text it sends, or the compact text of
\* the same value.
SignedText(raw, asSent) ==
    IF asSent \/ ~CanParse(raw) THEN raw ELSE JsonStringify(JsonParse(raw))

Request(sig, ts, raw, contentType) ==
    [sig |-> sig, ts |-> ts, raw |-> raw, contentType |-> contentType]

Requests(raws, signers, stamps, forms, signed, tsHeaders, contentTypes) ==
    {r \in {Request(IF sk = "" THEN None
                    ELSE Some([Sign(sk, st, SignedText(raw, sent))
                                 EXCEPT !.wellFormed = wf]),
                    th, raw, ct) :
                raw \in raws, sk \in signers, st \in stamps, wf \in forms,
                sent \in signed, th \in tsHeaders, ct \in contentTypes} :
        r.contentType = "json" => CanParse(r.raw)}

WideIds == {None, Some(<<>>), Some(<<"a">>), Some(<<"c">>), Some(<<"a", ":", "b">>)}
WideUsers == {<<Some("u1"), None>>, <<None, Some("u1")>>, <<None, None>>}

WideRequests ==
    Requests(
        Texts(Interactions({0, PingType, ApplicationCommandType, MessageComponentType,
                            AutocompleteType, ModalSubmitType},
                           {"", "A1", "A2", "X9", "constructor"}, WideIds, WideUsers),
              {"compact", "spaced"}) \cup {Unparseable},
        {"", "skA1", "skA2"}, {"t0", "t1"}, BOOLEAN, BOOLEAN, {None, Some("t0")},
        {"text", "json"})

ServeIds == {Some(<<"a">>), Some(<<"c">>), Some(<<"a", ":", "b">>)}
ServeUsers == {<<Some("u1"), None>>, <<None, Some("u1")>>, <<None, Some("u2")>>}

ServeRequests ==
    Requests(
        Texts(Interactions({PingType, ApplicationCommandType, MessageComponentType,
                            ModalSubmitType},
                           {"A1"}, ServeIds, ServeUsers),
              {"compact"}),
        {"skA1", "skA2"}, {"t0"}, {TRUE}, {TRUE}, {Some("t0")}, {"text"})

\* Verified requests of two users for handlers with a cooldown ("a"), without
\* one (command "b": no cooldown property, button "b": cooldown 0) and for
\* identifiers nobody registered.
ThrottleIds == {Some(<<"a">>), Some(<<"b">>), Some(<<"c">>)}
ThrottleUsers == {<<Some("u1"), None>>, <<None, Some("u2")>>}

ThrottleRequests ==
    Requests(
        Texts(Interactions({ApplicationCommandType, MessageComponentType},
                           {"A1"}, ThrottleIds, ThrottleUsers),
              {"compact"}),
        {"skA1"}, {"t0"}, {TRUE}, {TRUE}, {Some("t0")}, {"text"})

\* Requests of the same users for the same handlers with a cooldown, to be
\* in flight together.
ConcRequests ==
    Requests(
        Texts(Interactions({ApplicationCommandType, MessageComponentType},
                           {"A1"}, {Some(<<"a">>)}, ThrottleUsers),
              {"compact"}),
        {"skA1"}, {"t0"}, {TRUE}, {TRUE}, {Some("t0")}, {"text"})

----------------------------------------------------------------------------
(* State *)

Slots == {"r1"}

\* A helper of componentHelper.ts applied outside a request: its arguments and
\* what it returned.
CallOf(op, baseId, args, probe, token, parsed, matched) ==
    [op |-> op, baseId |-> baseId, args |-> args, probe |-> probe,
     token |-> token, parsed |-> parsed, matched |-> matched]

NoCall == CallOf("none", <<>>, <<>>, <<>>, <<>>, [id |-> <<>>, args |-> <<>>], FALSE)

Idle ==
    [pc |-> "idle", req |-> None, inter |-> None, resp |-> None,
     invoked |-> 0, handlerType |-> "", handlerId |-> <<>>, settled |-> "",
     passed |-> NoInput, returned |-> None]

Init ==
    /\ registry = LoadedRegistry
    /\ slot = [s \in Slots |-> Idle]
    /\ cooldowns = <<>>
    /\ timers = {}
    /\ now = 0
    /\ arrivals = 0
    /\ call = NoCall
    /\ loading = Served

\* One request, of any shape, at the door of a freshly started server.
GateInit ==
    /\ registry = LoadedRegistry
    /\ slot \in [Slots -> {[Idle EXCEPT !.pc = "received", !.req = Some(r)] :
                              r \in WideRequests}]
    /\ cooldowns = <<>>
    /\ timers = {}
    /\ now = 0
    /\ arrivals = 1
    /\ call = NoCall
    /\ loading = Served

----------------------------------------------------------------------------
(* Actions *)

\* The framework calls the route handler with a request.
Arrive(s, r) ==
    /\ slot[s].pc = "idle"
    /\ arrivals < MaxArrivals
    /\ slot' = [slot EXCEPT ![s] = [Idle EXCEPT !.pc = "received", !.req = Some(r)]]
    /\ arrivals' = arrivals + 1
    /\ UNCHANGED <<registry, cooldowns, timers, now, call, loading>>

\* main.ts:56-65
Gate(s) ==
    /\ slot[s].pc = "received"
    /\ LET req == Get(slot[s].req)
           result == withDiscordInteraction(BodyString(req), req.sig, req.ts)
       IN  slot' = [slot EXCEPT ![s] =
                IF result.isResponse
                THEN [@ EXCEPT !.pc = "done", !.resp = Some(result.resp)]
                ELSE [@ EXCEPT !.pc = "verified", !.inter = result.interaction]]
    /\ UNCHANGED <<registry, cooldowns, timers, now, arrivals, call, loading>>

\* as Route, with a lookup that takes the descriptor out of its map
RouteTakingDescriptor(s) ==
    /\ slot[s].pc = "verified"
    /\ LET o == Dispatch(Get(slot[s].inter), cooldowns, timers, now)
           kind == CASE o.handlerType = "command" -> "commands"
                     [] o.handlerType = "button" -> "buttons"
                     [] o.handlerType = "select" -> "selects"
                     [] OTHER -> "modals"
       IN  /\ cooldowns' = o.cooldowns
           /\ timers' = o.timers
           /\ registry' = IF o.kind = "invoke"
                          THEN [registry EXCEPT ![kind] =
                                    [id \in DOMAIN @ \ {o.handlerId} |-> @[id]]]
                          ELSE registry
           /\ slot' = [slot EXCEPT ![s] =
                IF o.kind = "invoke"
                THEN [@ EXCEPT !.pc = "awaiting", !.invoked = @ + 1,
                               !.handlerType = o.handlerType,
                               !.handlerId = o.handlerId,
                               !.passed = HandlerInput(Get(slot[s].inter))]
                ELSE [@ EXCEPT !.pc = "done", !.resp = Some(o.resp),
                               !.handlerType = o.handlerType,
                               !.handlerId = o.handlerId]]
    /\ UNCHANGED <<now, arrivals, call, loading>>

\* main.ts:67-250 up to the await of execute
Route(s) ==
    /\ slot[s].pc = "verified"
    /\ LET o == Dispatch(Get(slot[s].inter), cooldowns, timers, now)
       IN  /\ cooldowns' = o.cooldowns
           /\ timers' = o.timers
           /\ slot' = [slot EXCEPT ![s] =
                IF o.kind = "invoke"
                THEN [@ EXCEPT !.pc = "awaiting", !.invoked = @ + 1,
                               !.handlerType = o.handlerType,
                               !.handlerId = o.handlerId,
                               !.passed = HandlerInput(Get(slot[s].inter))]
                ELSE [@ EXCEPT !.pc = "done", !.resp = Some(o.resp),
                               !.handlerType = o.handlerType,
                               !.handlerId = o.handlerId]]
    /\ UNCHANGED <<registry, now, arrivals, call, loading>>

\* the handler's promise settles
HandlerDone(s) ==
    /\ slot[s].pc = "awaiting"
    /\ \E result \in {[kind |-> "return", payload |-> p, thrown |-> ""] :
                          p \in HandlerPayloads}
                     \cup {[kind |-> "throw", payload |-> Body("none", 0, 0),
                            thrown |-> e] : e \in Thrown} :
           slot' = [slot EXCEPT ![s] =
                [@ EXCEPT !.pc = "done",
                          !.settled = IF result.kind = "return" THEN "return"
                                      ELSE result.thrown,
                          !.returned = IF result.kind = "return"
                                       THEN Some(result.payload) ELSE None,
                          !.resp = Some(Settle(AreaOf(slot[s].handlerType), result))]]
    /\ UNCHANGED <<registry, cooldowns, timers, now, arrivals, call, loading>>

\* the response has been sent
Retire(s) ==
    /\ slot[s].pc = "done"
    /\ slot' = [slot EXCEPT ![s] = Idle]
    /\ UNCHANGED <<registry, cooldowns, timers, now, arrivals, call, loading>>

TickSteps == {500, 1000}

Tick ==
    /\ \E d \in TickSteps : now + d <= MaxNow /\ now' = now + d
    /\ UNCHANGED <<registry, slot, cooldowns, timers, arrivals, call, loading>>

\* main.ts:45  () => timestamps.delete(userId)
TimerFire ==
    /\ \E tm \in timers :
        /\ now >= tm.due
        /\ timers' = timers \ {tm}
        /\ cooldowns' = [cooldowns EXCEPT ![tm.key] =
                            [u \in DOMAIN @ \ {tm.userId} |-> @[u]]]
    /\ UNCHANGED <<registry, slot, now, arrivals, call, loading>>

Next ==
    \/ \E s \in Slots, r \in ServeRequests : Arrive(s, r)
    \/ \E s \in Slots : Gate(s)
    \/ \E s \in Slots : Route(s)
    \/ \E s \in Slots : HandlerDone(s)
    \/ \E s \in Slots : Retire(s)
    \/ Tick
    \/ TimerFire

Spec == Init /\ [][Next]_vars

GateNext ==
    \/ \E s \in Slots : Gate(s)
    \/ \E s \in Slots : Route(s)
    \/ \E s \in Slots : HandlerDone(s)

GateSpec == GateInit /\ [][GateNext]_vars

\* The server under verified traffic only: what the cooldown store goes
\* through.
ThrottleNext ==
    \/ \E s \in Slots, r \in ThrottleRequests : Arrive(s, r)
    \/ \E s \in Slots : Gate(s)
    \/ \E s \in Slots : Route(s)
    \/ \E s \in Slots : HandlerDone(s)
    \/ \E s \in Slots : Retire(s)
    \/ Tick
    \/ TimerFire

ThrottleSpec == Init /\ [][ThrottleNext]_vars

\* The custom-id helpers applied to strings over Chars: a base id and
\* arguments are encoded, the token is decoded, and the token is matched
\* against a second base id.
Strings(n) == UNION {[1..k -> Chars] : k \in 0..n}
ArgLists == UNION {[1..k -> Strings(MaxArgLen)] : k \in 0..MaxArgs}

CodecInit ==
    /\ registry = LoadedRegistry
    /\ slot = [s \in Slots |-> Idle]
    /\ cooldowns = <<>>
    /\ timers = {}
    /\ now = 0
    /\ arrivals = 0
    /\ call \in {CallOf("start", baseId, args, probe, <<>>,
                         [id |-> <<>>, args |-> <<>>], FALSE) :
                    baseId \in Strings(MaxIdLen), args \in ArgLists,
                    probe \in Strings(MaxIdLen)}
    /\ loading = Served

Build ==
    /\ call.op = "start"
    /\ call' = [call EXCEPT !.op = "built",
                            !.token = buildCustomId(call.baseId, call.args)]
    /\ UNCHANGED <<registry, slot, cooldowns, timers, now, arrivals, loading>>

Parse ==
    /\ call.op = "built"
    /\ call' = [call EXCEPT !.op = "parsed",
                            !.parsed = parseCustomId(call.token)]
    /\ UNCHANGED <<registry, slot, cooldowns, timers, now, arrivals, loading>>

Match ==
    /\ call.op = "parsed"
    /\ call' = [call EXCEPT !.op = "matched",
                            !.matched = matchesCustomId(call.token, call.probe)]
    /\ UNCHANGED <<registry, slot, cooldowns, timers, now, arrivals, loading>>

CodecNext == Build \/ Parse \/ Match

CodecSpec == CodecInit /\ [][CodecNext]_vars

\* Population of the registry before requests are served.  The modules of
\* the commands directory vary most; the other directories are missing, or
\* hold one module that loads or one that does not.
ModuleShapes ==
    {Module(FALSE, None, "missing", None),
     Module(TRUE, None, "function", None),
     Module(TRUE, Some(<<>>), "function", None),
     Module(TRUE, Some(<<"a">>), "missing", None),
     Module(TRUE, Some(<<"a">>), "function", None),
     Module(TRUE, Some(<<"a">>), "function", Some(1)),
     Module(TRUE, Some(<<"b">>), "function", None)}

Locations ==
    {None} \cup {Some(files) : files \in UNION {[1..n -> ModuleShapes] : n \in 0..MaxModules}}

SmallLocations ==
    {None, Some(<<Module(TRUE, Some(<<"a">>), "function", None)>>),
     Some(<<Module(FALSE, None, "missing", None)>>)}

LoaderInit ==
    /\ registry = EmptyRegistry
    /\ slot = [s \in Slots |-> Idle]
    /\ cooldowns = <<>>
    /\ timers = {}
    /\ now = 0
    /\ arrivals = 0
    /\ call = NoCall
    /\ loading \in {Loading([commands |-> c, buttons |-> b, modals |-> m, selects |-> s],
                             bun, {}, 0, FALSE) :
                        c \in Locations, b \in SmallLocations, m \in SmallLocations,
                        s \in SmallLocations, bun \in BOOLEAN}

\* loader.ts:217-222  loadAll where Bun is not defined
LoadFromManifest ==
    /\ ~loading.bun /\ loading.runs < MaxLoads
    /\ registry' = loadFromManifest(registry, loading.modules)
    /\ loading' = [loading EXCEPT !.runs = @ + 1]
    /\ UNCHANGED <<slot, cooldowns, timers, now, arrivals, call>>

\* loader.ts:224-229  loadAll where Bun is defined starts the four scans
LoadAll ==
    /\ loading.bun /\ loading.pending = {} /\ loading.runs < MaxLoads
    /\ ~loading.registered
    /\ loading' = [loading EXCEPT !.pending = Kinds]
    /\ UNCHANGED <<registry, slot, cooldowns, timers, now, arrivals, call>>

\* One of the scans of Promise.all completes; loadAll resolves with the last.
LoadOne(kind) ==
    /\ kind \in loading.pending
    /\ registry' = loadKind(registry, kind, loading.modules[kind])
    /\ loading' = [loading EXCEPT !.pending = @ \ {kind},
                                  !.runs = IF loading.pending = {kind} THEN @ + 1 ELSE @]
    /\ UNCHANGED <<slot, cooldowns, timers, now, arrivals, call>>

LoadCommands == LoadOne("commands")
LoadButtons == LoadOne("buttons")
LoadModals == LoadOne("modals")
LoadSelects == LoadOne("selects")

\* registerCommands.ts:45-47  loader.loadCommands() on the populated loader
RegisterCommands ==
    /\ loading.bun /\ loading.pending = {} /\ loading.runs >= 1
    /\ ~loading.registered
    /\ registry' = loadKind(registry, "commands", loading.modules["commands"])
    /\ loading' = [loading EXCEPT !.registered = TRUE]
    /\ UNCHANGED <<slot, cooldowns, timers, now, arrivals, call>>

LoaderNext ==
    \/ LoadFromManifest
    \/ LoadAll
    \/ LoadCommands
    \/ LoadButtons
    \/ LoadModals
    \/ LoadSelects
    \/ RegisterCommands

LoaderSpec == LoaderInit /\ [][LoaderNext]_vars

\* Two invocations of the route in flight at the same instant.  An invocation
\* gives up control only where the code awaits: at withDiscordInteraction
\* (main.ts:59) and at the handler's execute (main.ts:87, 136, 180, 229); the
\* statements between two awaits run as one step, and the steps of the two
\* invocations interleave in every order.
ConcSlots == {"r1", "r2"}

ConcInit ==
    /\ registry = LoadedRegistry
    /\ slot = [s \in ConcSlots |-> Idle]
    /\ cooldowns = <<>>
    /\ timers = {}
    /\ now = 0
    /\ arrivals = 0
    /\ call = NoCall
    /\ loading = Served

ConcNext ==
    \/ \E s \in ConcSlots, r \in ConcRequests : Arrive(s, r)
    \/ \E s \in ConcSlots : Gate(s)
    \/ \E s \in ConcSlots : Route(s)
    \/ \E s \in ConcSlots : HandlerDone(s)
    \/ \E s \in ConcSlots : Retire(s)

ConcSpec == ConcInit /\ [][ConcNext]_vars

\* One verified request at the door of a server whose handlers of the four
\* kinds share the identifier "a" and differ in their cooldown; a component
\* is a button, a string select or a channel select, with or without
\* values, and a modal carries action rows of components.
RouteModules ==
    [commands |-> Some(<<Module(TRUE, Some(<<"a">>), "function", Some(1))>>),
     buttons  |-> Some(<<Module(TRUE, Some(<<"a">>), "function", Some(2)),
                         Module(TRUE, Some(<<"b">>), "function", Some(2))>>),
     modals   |-> Some(<<Module(TRUE, Some(<<"a">>), "function", Some(4))>>),
     selects  |-> Some(<<Module(TRUE, Some(<<"a">>), "function", Some(3)),
                         Module(TRUE, Some(<<"d">>), "function", None)>>)]

RouteIds == {Some(<<"a">>), Some(<<"b">>), Some(<<"d">>), Some(<<"c">>),
             Some(<<"a", ":", "b">>)}

SelectedValues == {None, Some(<<>>), Some(<<"x">>), Some(<<"x", "y">>)}

Component(type, custom_id, value) ==
    [type |-> type, custom_id |-> custom_id, value |-> value]

ComponentShapes ==
    {Component(TextInput, Some("f"), Some("x")),
     Component(TextInput, Some("f"), Some("y")),
     Component(TextInput, Some("g"), Some("x")),
     Component(TextInput, Some("f"), None),
     Component(TextInput, Some("f"), Some("")),
     Component(TextInput, None, Some("x")),
     Component(StringSelectComponent, Some("f"), Some("x"))}

ActionRow(components) == [components |-> components]

\* The first row of a submission is any row of up to MaxFields components;
\* the rows after it are a row without components or a row of one text input.
Rows ==
    {ActionRow(None)} \cup
    {ActionRow(Some(cs)) : cs \in UNION {[1..n -> ComponentShapes] : n \in 0..MaxFields}}

LaterRows ==
    {ActionRow(None),
     ActionRow(Some(<<Component(TextInput, Some("f"), Some("y"))>>)),
     ActionRow(Some(<<Component(TextInput, Some("g"), Some("x"))>>))}

Submissions ==
    {None, Some(<<>>)} \cup
    {Some(<<first>> \o rest) :
        first \in Rows, rest \in UNION {[1..n -> LaterRows] : n \in 0..MaxRows - 1}}

RouteInteractions ==
    {Interaction(ApplicationCommandType, "A1",
                 Some([id |-> i, component_type |-> 0, values |-> None,
                       components |-> None]),
                 Some("u1"), None) : i \in RouteIds}
    \cup
    {Interaction(MessageComponentType, "A1",
                 Some([id |-> i, component_type |-> c, values |-> v,
                       components |-> None]),
                 Some("u1"), None) :
        i \in RouteIds, v \in SelectedValues,
        c \in {ButtonComponent, StringSelectComponent, ChannelSelectComponent}}
    \cup
    {Interaction(ModalSubmitType, "A1",
                 Some([id |-> i, component_type |-> 0, values |-> None,
                       components |-> cs]),
                 Some("u1"), None) :
        i \in {Some(<<"a">>), Some(<<"c">>)}, cs \in Submissions}

RouteRequests ==
    Requests(Texts(RouteInteractions, {"compact"}),
             {"skA1"}, {"t0"}, {TRUE}, {TRUE}, {Some("t0")}, {"text"})

RouteInit ==
    /\ registry = loadFromManifest(EmptyRegistry, RouteModules)
    /\ slot \in [Slots -> {[Idle EXCEPT !.pc = "received", !.req = Some(r)] :
                              r \in RouteRequests}]
    /\ cooldowns = <<>>
    /\ timers = {}
    /\ now = 0
    /\ arrivals = 1
    /\ call = NoCall
    /\ loading = Loading(RouteModules, FALSE, {}, 1, FALSE)

RouteNext ==
    \/ \E s \in Slots : Gate(s)
    \/ \E s \in Slots : Route(s)
    \/ \E s \in Slots : HandlerDone(s)

RouteSpec == RouteInit /\ [][RouteNext]_vars

\* Requests for the handlers "a" of the four kinds, from a direct message
\* (user), from a guild (member.user) and with both fields filled in, two in
\* flight together at one instant.
ContextUsers ==
    {<<Some("u1"), None>>, <<None, Some("u1")>>, <<Some("u1"), Some("u2")>>}

ContextRequests ==
    Requests(
        Texts(Interactions({ApplicationCommandType, MessageComponentType,
                            ModalSubmitType},
                           {"A1"}, {Some(<<"a">>)}, ContextUsers),
              {"compact"}),
        {"skA1"}, {"t0"}, {TRUE}, {TRUE}, {Some("t0")}, {"text"})

ContextNext ==
    \/ \E s \in ConcSlots, r \in ContextRequests : Arrive(s, r)
    \/ \E s \in ConcSlots : Gate(s)
    \/ \E s \in ConcSlots : Route(s)
    \/ \E s \in ConcSlots : HandlerDone(s)
    \/ \E s \in ConcSlots : Retire(s)

ContextSpec == ConcInit /\ [][ContextNext]_vars

\* verifyHeaders applied to a timestamp, a body, the hex text of a signature
\* and of a public key: the request is signed, then one of its parts may be
\* changed on the way, then it is verified.
StampChars == {"1", "2"}
BodyChars == {"1", "x"}
Stamps == UNION {[1..n -> StampChars] : n \in 1..MaxTextLen}
Bodies == UNION {[1..n -> BodyChars] : n \in 0..MaxTextLen}

VerifyCall(op, timestamp, rawBody, secretKey, signature, public_key, changed, result) ==
    [op |-> op, timestamp |-> timestamp, rawBody |-> rawBody,
     secretKey |-> secretKey, signature |-> signature, public_key |-> public_key,
     changed |-> changed, result |-> result]

VerifyInit ==
    /\ registry = LoadedRegistry
    /\ slot = [s \in Slots |-> Idle]
    /\ cooldowns = <<>>
    /\ timers = {}
    /\ now = 0
    /\ arrivals = 0
    /\ call \in {VerifyCall("start", timestamp, rawBody, secretKey, <<>>,
                             ToHex(PublicKeyOf(secretKey)), "nothing", "") :
                    timestamp \in Stamps, rawBody \in Bodies,
                    secretKey \in SecretKeys}
    /\ loading = Served

\* the platform signs timestamp + body
SignRequest ==
    /\ call.op = "start"
    /\ call' = [call EXCEPT
                    !.op = "signed",
                    !.signature = ToHex(SignDetached(call.secretKey,
                                                     call.timestamp \o call.rawBody))]
    /\ UNCHANGED <<registry, slot, cooldowns, timers, now, arrivals, loading>>

Change(what, field, value) ==
    /\ call.op = "signed"
    /\ call' = [call EXCEPT !.op = "changed", !.changed = what, ![field] = value]
    /\ UNCHANGED <<registry, slot, cooldowns, timers, now, arrivals, loading>>

\* one byte of the signature becomes another byte: its first digit, its
\* second digit or both are other digits
ChangeSignatureByte ==
    \E i \in 1..SigBytes, halves \in {{1}, {2}, {1, 2}} :
        Change("signature byte", "signature",
               [k \in 1..Len(call.signature) |->
                    IF (k + 1) \div 2 = i /\ (2 - (k % 2)) \in halves
                    THEN [call.signature[k] EXCEPT !.digit.flipped = TRUE]
                    ELSE call.signature[k]])

\* a digit of the signature is written in the other case
ChangeSignatureCase ==
    \E k \in 1..(2 * SigBytes) :
        Change("signature case", "signature",
               [call.signature EXCEPT ![k].upper = TRUE])

\* a character of the signature is no hexadecimal digit
ChangeSignatureToNonHex ==
    \E k \in 1..(2 * SigBytes) :
        Change("signature hex", "signature",
               [call.signature EXCEPT ![k].hex = FALSE])

\* the signature is cut short, or a byte too long
ChangeSignatureLength ==
    \/ \E n \in 0..(2 * SigBytes - 1) :
          Change("signature length", "signature", SubSeq(call.signature, 1, n))
    \/ Change("signature length", "signature",
              call.signature \o SubSeq(call.signature, 1, 2))

\* the configured public key is malformed hex or of the wrong length
ChangePublicKey ==
    \/ \E k \in 1..(2 * KeyBytes) :
          Change("key hex", "public_key", [call.public_key EXCEPT ![k].hex = FALSE])
    \/ \E n \in 0..(2 * KeyBytes - 1) :
          Change("key length", "public_key", SubSeq(call.public_key, 1, n))

ChangeBodyByte ==
    \E i \in 1..Len(call.rawBody) : \E c \in BodyChars \ {call.rawBody[i]} :
        Change("body byte", "rawBody", [call.rawBody EXCEPT ![i] = c])

ChangeTimestampByte ==
    \E i \in 1..Len(call.timestamp) : \E c \in StampChars \ {call.timestamp[i]} :
        Change("timestamp byte", "timestamp", [call.timestamp EXCEPT ![i] = c])

\* discordHelper.ts:97
Verify ==
    /\ call.op \in {"signed", "changed"}
    /\ call' = [call EXCEPT
                    !.op = "verified",
                    !.result = verifyHeadersOfTexts(call.timestamp, call.rawBody,
                                                    call.signature, call.public_key)]
    /\ UNCHANGED <<registry, slot, cooldowns, timers, now, arrivals, loading>>

VerifyNext ==
    \/ SignRequest
    \/ ChangeSignatureByte
    \/ ChangeSignatureCase
    \/ ChangeSignatureToNonHex
    \/ ChangeSignatureLength
    \/ ChangePublicKey
    \/ ChangeBodyByte
    \/ ChangeTimestampByte
    \/ Verify

VerifySpec == VerifyInit /\ [][VerifyNext]_vars

\* The administrative path: one call of createGlobalCommand, of
\* bulkOverwriteGlobalCommands or of registerCommands, and the answer of the
\* platform's API to its request.
ApiValues ==
    {[isArray |-> TRUE, items |-> <<>>], [isArray |-> TRUE, items |-> <<"a">>],
     [isArray |-> TRUE, items |-> <<"a", "b">>],
     [isArray |-> FALSE, items |-> <<>>]}

ApiAnswers ==
    {ApiAnswer(status, text) :
        status \in {200, 201, 204, 299, 300, 304, 400, 401, 403, 429, 500, 503},
        text \in Texts(ApiValues, {"compact"}) \cup {Unparseable}}

AdminCall(op, function, answer, sent, outcome) ==
    [op |-> op, function |-> function, answer |-> answer, sent |-> sent,
     outcome |-> outcome]

AdminInit ==
    /\ registry = LoadedRegistry
    /\ slot = [s \in Slots |-> Idle]
    /\ cooldowns = <<>>
    /\ timers = {}
    /\ now = 0
    /\ arrivals = 0
    /\ call \in {AdminCall("start", "", answer, {}, ReturnedNothing) :
                    answer \in ApiAnswers}
    /\ loading \in {Loading(ServedModules, bun, {}, 1, FALSE) : bun \in BOOLEAN}

CreateGlobalCommand ==
    /\ call.op = "start"
    /\ \E name \in DOMAIN registry.commands :
          call' = [call EXCEPT !.op = "settled", !.function = "createGlobalCommand",
                               !.sent = {name},
                               !.outcome = createGlobalCommand(call.answer)]
    /\ UNCHANGED <<registry, slot, cooldowns, timers, now, arrivals, loading>>

BulkOverwriteGlobalCommands ==
    /\ call.op = "start"
    /\ call' = [call EXCEPT !.op = "settled",
                            !.function = "bulkOverwriteGlobalCommands",
                            !.sent = DOMAIN registry.commands,
                            !.outcome = bulkOverwriteGlobalCommands(call.answer)]
    /\ UNCHANGED <<registry, slot, cooldowns, timers, now, arrivals, loading>>

\* registerCommands.ts:45-77; loadCommands scans only where Bun is defined
\* (its catch takes the ReferenceError elsewhere)
RegisterCommandsWithApi ==
    /\ call.op = "start"
    /\ registry' = IF loading.bun
                   THEN loadKind(registry, "commands", loading.modules["commands"])
                   ELSE registry
    /\ loading' = [loading EXCEPT !.registered = TRUE]
    /\ call' = [call EXCEPT !.op = "settled", !.function = "registerCommands",
                            !.sent = DOMAIN registry'.commands,
                            !.outcome = registerCommands(call.answer)]
    /\ UNCHANGED <<slot, cooldowns, timers, now, arrivals>>

AdminNext ==
    \/ CreateGlobalCommand
    \/ BulkOverwriteGlobalCommands
    \/ RegisterCommandsWithApi

AdminSpec == AdminInit /\ [][AdminNext]_vars

\* The server with its timers running.  Time is followed only while a timer
\* is pending: with none pending nothing depends on the clock.  The event
\* loop runs a timer's callback once its delay has passed, and time passes:
\* both are weakly fair.  Requests are under no obligation to arrive or to
\* make progress.
Elapse ==
    /\ \E tm \in timers : now < tm.due
    /\ \E d \in TickSteps : now' = now + d
    /\ UNCHANGED <<registry, slot, cooldowns, timers, arrivals, call, loading>>

ExpiryNext ==
    \/ \E s \in Slots, r \in ConcRequests : Arrive(s, r)
    \/ \E s \in Slots : Gate(s)
    \/ \E s \in Slots : Route(s)
    \/ \E s \in Slots : HandlerDone(s)
    \/ \E s \in Slots : Retire(s)
    \/ Elapse
    \/ TimerFire

ExpirySpec ==
    Init /\ [][ExpiryNext]_vars /\ WF_vars(Elapse) /\ WF_vars(TimerFire)

\* A server from its start: the registry is populated from handler modules,
\* some of which export an empty identifier, by the manifest or by the scans
\* of the directories; once loadAll has resolved (main.ts:12) verified
\* requests arrive whose identifier is empty, begins with a colon, or is "a".
EmptyNamed == Module(TRUE, Some(<<>>), "function", None)

StartupLocations ==
    {Some(<<EmptyNamed>>),
     Some(<<EmptyNamed, Module(TRUE, Some(<<"a">>), "function", None)>>)}

StartupIds == {Some(<<>>), Some(<<":">>), Some(<<":", "a">>), Some(<<"a">>)}

StartupRequests ==
    Requests(
        Texts(Interactions({ApplicationCommandType, MessageComponentType,
                            ModalSubmitType},
                           {"A1"}, StartupIds, {<<Some("u1"), None>>}),
              {"compact"}),
        {"skA1"}, {"t0"}, {TRUE}, {TRUE}, {Some("t0")}, {"text"})

StartupInit ==
    /\ registry = EmptyRegistry
    /\ slot = [s \in Slots |-> Idle]
    /\ cooldowns = <<>>
    /\ timers = {}
    /\ now = 0
    /\ arrivals = 0
    /\ call = NoCall
    /\ loading \in {Loading([commands |-> c, buttons |-> b, modals |-> m, selects |-> s],
                             bun, {}, 0, FALSE) :
                        c \in StartupLocations \cup {None}, b \in StartupLocations,
                        m \in StartupLocations, s \in StartupLocations,
                        bun \in BOOLEAN}

\* main.ts:12, 55  the route is mounted after `await loader.loadAll()`
Serve(s, r) ==
    /\ loading.runs >= 1 /\ loading.pending = {}
    /\ Arrive(s, r)

StartupNext ==
    \/ LoadFromManifest
    \/ LoadAll
    \/ LoadCommands
    \/ LoadButtons
    \/ LoadModals
    \/ LoadSelects
    \/ RegisterCommands
    \/ \E s \in Slots, r \in StartupRequests : Serve(s, r)
    \/ \E s \in Slots : Gate(s)
    \/ \E s \in Slots : Route(s)
    \/ \E s \in Slots : HandlerDone(s)
    \/ \E s \in Slots : Retire(s)

StartupSpec == StartupInit /\ [][StartupNext]_vars

TypeOK ==
    /\ now \in 0..MaxNow
    /\ arrivals \in 0..MaxArrivals
    /\ \A s \in Slots : slot[s].pc \in {"idle", "received", "verified", "awaiting", "done"}

----------------------------------------------------------------------------
(* Vocabulary of the properties *)

ReqOf(s) == Get(slot[s].req)
RespOf(s) == Get(slot[s].resp)
Answered(s) == slot[s].pc = "done"

\* The request has left withDiscordInteraction.
PastGate(s) == slot[s].pc \in {"verified", "awaiting", "done"}

\* The request was handed on to the routing part of the handler.
Routed(s) == IsSome(slot[s].inter)

HeadersPresent(req) == IsSome(req.sig) /\ IsSome(req.ts)

\* The application id the body names, if the body says one.
NamedApp(req) ==
    IF CanParse(req.raw) THEN JsonParse(req.raw).application_id ELSE ""

\* The signature header is a well-formed signature, by the key of the
\* application the body names, over the timestamp header and the text.
SignatureOver(req, text) ==
    /\ HeadersPresent(req)
    /\ NamedApp(req) \in DOMAIN customBots
    /\ Get(req.sig).wellFormed
    /\ Get(req.sig).signer = SecretOf(Get(customBots[NamedApp(req)].publicKey))
    /\ Get(req.sig).ts = Get(req.ts)
    /\ Get(req.sig).body = text

\* C1: no handler is invoked, no cooldown entry or timer is created and the
\* routing part is never entered unless the signature verified, under the
\* public key configured for the application id of the body, over the
\* timestamp and the body text the route checked.
C1_NothingBeforeVerification ==
    \A s \in Slots :
        (\/ Routed(s)
         \/ slot[s].pc \in {"verified", "awaiting"}
         \/ slot[s].invoked > 0
         \/ cooldowns # <<>>
         \/ timers # {})
        => /\ CanParse(ReqOf(s).raw)
           /\ SignatureOver(ReqOf(s), BodyString(ReqOf(s)))

C1_Witness ==
    \E s \in Slots :
        /\ slot[s].invoked = 1
        /\ cooldowns # <<>>
        /\ SignatureOver(ReqOf(s), BodyString(ReqOf(s)))

ParsedBody(req) == JsonParse(req.raw)

\* C2: a request whose signature is valid over the timestamp and the raw body
\* text as received is never rejected as badly signed, whatever the
\* formatting of that text.
C2_RawBodyVerifies ==
    \A s \in Slots :
        (PastGate(s) /\ SignatureOver(ReqOf(s), ReqOf(s).raw))
        => ~(Answered(s) /\ RespOf(s).status = 401)

\* The signature is missing or is no valid signature of the request (neither
\* over the text received nor over the text the route checks).
DoesNotVerify(req) ==
    /\ ~SignatureOver(req, req.raw)
    /\ ~SignatureOver(req, BodyString(req))

\* C3: every request whose signature is missing or does not verify is
\* answered 401, whatever the rest of the request looks like.
C3_UnverifiedIs401 ==
    \A s \in Slots :
        (PastGate(s) /\ DoesNotVerify(ReqOf(s)))
        => (Answered(s) /\ RespOf(s).status = 401)

MissingDiscriminator(req) ==
    \/ ~CanParse(req.raw)
    \/ ParsedBody(req).type = 0
    \/ ParsedBody(req).application_id = ""

\* C4: with both signature headers present, an unparseable body or one
\* without type or application_id is answered 400 (not the generic internal
\* error) and no handler is invoked.
C4_MalformedIs400 ==
    \A s \in Slots :
        (PastGate(s) /\ HeadersPresent(ReqOf(s)) /\ MissingDiscriminator(ReqOf(s)))
        => /\ Answered(s)
           /\ RespOf(s).status = 400
           /\ slot[s].invoked = 0

\* C5: a well-formed request whose application id is not in the config
\* mapping is answered 404 and is never routed: no lookup, no cooldown
\* mutation, no handler invocation.
C5_UnknownAppIs404 ==
    \A s \in Slots :
        (/\ PastGate(s)
         /\ HeadersPresent(ReqOf(s))
         /\ ~MissingDiscriminator(ReqOf(s))
         /\ ParsedBody(ReqOf(s)).application_id \notin DOMAIN customBots)
        => /\ Answered(s)
           /\ RespOf(s).status = 404
           /\ ~Routed(s)
           /\ slot[s].invoked = 0
           /\ cooldowns = <<>> /\ timers = {}

\* C6: a Ping with a valid signature for a configured application is answered
\* 200 {type: 1}, invokes no handler and leaves registry and cooldown state
\* unchanged.
C6_PingAcknowledged ==
    \A s \in Slots :
        (/\ PastGate(s)
         /\ SignatureOver(ReqOf(s), ReqOf(s).raw)
         /\ ParsedBody(ReqOf(s)).type = PingType)
        => /\ Answered(s)
           /\ RespOf(s) = respond(200, Body("pong", 1, 0))
           /\ slot[s].invoked = 0
           /\ registry = LoadedRegistry
           /\ cooldowns = <<>> /\ timers = {}

\* The text before the first colon.
BaseIdOf(str) ==
    LET colons == {i \in 1..Len(str) : str[i] = ":"}
        stop == IF colons = {} THEN Len(str) + 1
                ELSE CHOOSE i \in colons : \A j \in colons : i <= j
    IN  SubSeq(str, 1, stop - 1)

InterOf(s) == Get(slot[s].inter)

Dispatchable(interaction) ==
    interaction.type \in {ApplicationCommandType, MessageComponentType, ModalSubmitType}

HasIdentifier(interaction) ==
    IsSome(interaction.data) /\ IsSome(Get(interaction.data).id)

\* The handler kind an interaction is for, and the identifier it names.
HandlerTypeOf(interaction) ==
    IF interaction.type = ApplicationCommandType THEN "command"
    ELSE IF interaction.type = ModalSubmitType THEN "modal"
    ELSE IF Get(interaction.data).component_type = ButtonComponent THEN "button"
    ELSE "select"

IdentifierOf(interaction) ==
    IF interaction.type = ApplicationCommandType
    THEN Get(Get(interaction.data).id)
    ELSE BaseIdOf(Get(Get(interaction.data).id))

MapOf(handlerType) ==
    CASE handlerType = "command" -> registry.commands
      [] handlerType = "button" -> registry.buttons
      [] handlerType = "select" -> registry.selects
      [] OTHER -> registry.modals

Registered(interaction) ==
    /\ Dispatchable(interaction)
    /\ HasIdentifier(interaction)
    /\ IdentifierOf(interaction) \in DOMAIN MapOf(HandlerTypeOf(interaction))

Unregistered(interaction) ==
    /\ Dispatchable(interaction)
    /\ HasIdentifier(interaction)
    /\ IdentifierOf(interaction) \notin DOMAIN MapOf(HandlerTypeOf(interaction))

\* The routing part of the handler runs for the request in slot s.
Routing(s) == slot[s].pc = "verified" /\ slot'[s] # slot[s]

\* C7: a verified command, component or modal interaction whose identifier
\* has no descriptor of its kind is answered 200 with the ephemeral
\* not-recognized body; no exception, no handler invocation, cooldown state
\* unchanged.
C7_HandlerNotFound ==
    [][\A s \in Slots :
        (Routing(s) /\ Unregistered(InterOf(s)))
        => /\ slot'[s].pc = "done"
           /\ Get(slot'[s].resp).status = 200
           /\ Get(slot'[s].resp).body.tag = "unknown"
           /\ Get(slot'[s].resp).body.type = ChannelMessageWithSource
           /\ Get(slot'[s].resp).body.flags = Ephemeral
           /\ slot'[s].invoked = 0
           /\ cooldowns' = cooldowns
           /\ timers' = timers]_vars

C7_Witness ==
    \E s \in Slots :
        /\ Answered(s) /\ Routed(s)
        /\ Unregistered(InterOf(s))
        /\ InterOf(s).type = MessageComponentType
        /\ RespOf(s).body.tag = "unknown"
        /\ cooldowns # <<>>

\* C8: when the invoked handler throws or rejects, the response is the
\* status-200 generic ephemeral error body, without the exception's message.
C8_HandlerFailureContained ==
    \A s \in Slots :
        (Answered(s) /\ slot[s].settled \in Thrown)
        => /\ RespOf(s).status = 200
           /\ RespOf(s).body.tag = "error"
           /\ RespOf(s).body.flags = Ephemeral
           /\ RespOf(s).body.message # ErrorMessage

\* The cooldown check the route makes for a registered interaction.
CheckFor(interaction) ==
    checkCooldown(HandlerTypeOf(interaction), IdentifierOf(interaction),
                  UserIdOf(interaction),
                  MapOf(HandlerTypeOf(interaction))[IdentifierOf(interaction)].cooldown,
                  cooldowns, timers, now)

\* C9: whenever the cooldown check for the resolved descriptor reports
\* on-cooldown, the response is the status-200 ephemeral slow-down body with
\* the remaining time, and the handler is not invoked.
C9_Throttled ==
    [][\A s \in Slots :
        (/\ Routing(s)
         /\ Registered(InterOf(s))
         /\ CheckFor(InterOf(s)).onCooldown)
        => /\ slot'[s].pc = "done"
           /\ Get(slot'[s].resp).status = 200
           /\ Get(slot'[s].resp).body.tag = "slowdown"
           /\ Get(slot'[s].resp).body.flags = Ephemeral
           /\ Get(slot'[s].resp).body.timeLeft = CheckFor(InterOf(s)).timeLeft
           /\ Get(slot'[s].resp).body.timeLeft > 0
           /\ slot'[s].invoked = 0]_vars

C9_Witness ==
    \E s \in Slots :
        /\ Answered(s) /\ Routed(s)
        /\ Registered(InterOf(s))
        /\ HandlerTypeOf(InterOf(s)) = "select"
        /\ RespOf(s).body.tag = "slowdown"
        /\ RespOf(s).body.timeLeft = 500
        /\ slot[s].invoked = 0

\* C10: a request that passed verification and config resolution and is not a
\* Ping is never answered 400, 401, 404 or 500.
C10_RoutedIs200 ==
    \A s \in Slots :
        (Answered(s) /\ Routed(s))
        => RespOf(s).status \notin {400, 401, 404, 500}

\* C11: a verified command without data or data.name, and a verified
\* component or modal submission without data.custom_id, is answered as an
\* unknown handler (200, ephemeral not-recognized body) with no handler
\* invoked, never with the internal error.
C11_MissingFieldsTolerated ==
    \A s \in Slots :
        (/\ Answered(s) /\ Routed(s)
         /\ Dispatchable(InterOf(s))
         /\ ~HasIdentifier(InterOf(s)))
        => /\ RespOf(s).status = 200
           /\ RespOf(s).body.tag = "unknown"
           /\ RespOf(s).body.flags = Ephemeral
           /\ slot[s].invoked = 0

\* The bodies of the terminal responses: the rejections of the verification
\* stage (authentication failure, malformed payload, unknown application),
\* the Ping acknowledgement, handler not found, throttled, the generic
\* handler failure and the handler's own payload.
TerminalTags ==
    {"direct", "badsig", "invalid", "nobot", "pong", "unknown", "slowdown",
     "error", "payload"}

\* C12: no request ends without a response body, and a verified interaction
\* of a type other than Ping, command, component and modal submission ends
\* with one of the terminal responses like every other request.
C12_AlwaysAResponse ==
    \A s \in Slots :
        Answered(s)
        => /\ RespOf(s) # NoResponse
           /\ (Routed(s) /\ ~Dispatchable(InterOf(s))
               => RespOf(s).body.tag \in TerminalTags)

----------------------------------------------------------------------------
(* The cooldown store *)

HandlerTypes == {"command", "button", "select", "modal"}
HandlerIds == {<<"a">>, <<"b">>, <<"c">>}
UserIds == {Some("u1"), Some("u2")}
CooldownSeconds == {1, 2}

\* An entry is stored for the user under the handler's key.
Stored(key, userId) ==
    key \in DOMAIN cooldowns /\ userId \in DOMAIN cooldowns[key]

\* The request in slot s names a registered handler that declares a cooldown.
Limited(s) ==
    /\ Registered(InterOf(s))
    /\ IsSome(MapOf(HandlerTypeOf(InterOf(s)))[IdentifierOf(InterOf(s))].cooldown)
    /\ Get(MapOf(HandlerTypeOf(InterOf(s)))[IdentifierOf(InterOf(s))].cooldown) > 0

KeyOf(s) == ThrottleKey(HandlerTypeOf(InterOf(s)), IdentifierOf(InterOf(s)))
UserOf(s) == UserIdOf(InterOf(s))
WindowOf(s) ==
    Get(MapOf(HandlerTypeOf(InterOf(s)))[IdentifierOf(InterOf(s))].cooldown)
        * MsPerSecond

\* C13: in every reachable state of the cooldown store, for every handler
\* kind, identifier, user and cooldown of at least one second, a check made
\* while no entry is stored for that user under that key reports
\* not-on-cooldown.
C13_FirstUseNotBlocked ==
    \A handlerType \in HandlerTypes, handlerId \in HandlerIds,
       userId \in UserIds, seconds \in CooldownSeconds :
        ~Stored(ThrottleKey(handlerType, handlerId), userId)
        => ~checkCooldown(handlerType, handlerId, userId, Some(seconds),
                          cooldowns, timers, now).onCooldown

\* A second user's first use of a handler, while the first user's entry is
\* stored, has been let through to the handler.
C13_Witness ==
    \E s \in Slots :
        /\ slot[s].pc = "awaiting"
        /\ Limited(s)
        /\ Stored(KeyOf(s), UserOf(s))
        /\ cooldowns[KeyOf(s)][UserOf(s)] = now
        /\ now > 0
        /\ \E other \in UserIds \ {UserOf(s)} : Stored(KeyOf(s), other)

\* C14: a check made while the stored window of the user is still open
\* (now < stamp + cooldown) answers on-cooldown with the time remaining,
\* expiry - now, which is positive and at most the cooldown, and leaves the
\* stored entries and the scheduled removals as they were.
C14_ThrottledCheckIsReadOnly ==
    [][\A s \in Slots :
        (/\ Routing(s)
         /\ Limited(s)
         /\ Stored(KeyOf(s), UserOf(s))
         /\ now < cooldowns[KeyOf(s)][UserOf(s)] + WindowOf(s))
        => /\ slot'[s].pc = "done"
           /\ slot'[s].invoked = 0
           /\ Get(slot'[s].resp).body.tag = "slowdown"
           /\ Get(slot'[s].resp).body.timeLeft
                = cooldowns[KeyOf(s)][UserOf(s)] + WindowOf(s) - now
           /\ Get(slot'[s].resp).body.timeLeft > 0
           /\ Get(slot'[s].resp).body.timeLeft <= WindowOf(s)
           /\ cooldowns' = cooldowns
           /\ timers' = timers]_vars

C14_Witness ==
    \E s \in Slots :
        /\ Answered(s) /\ Routed(s)
        /\ Limited(s)
        /\ HandlerTypeOf(InterOf(s)) = "command"
        /\ RespOf(s).body.tag = "slowdown"
        /\ now = 500
        /\ Stored(KeyOf(s), UserOf(s))
        /\ cooldowns[KeyOf(s)][UserOf(s)] = 0
        /\ RespOf(s).body.timeLeft = 500
        /\ [key |-> KeyOf(s), userId |-> UserOf(s), due |-> 1000] \in timers

\* C15: once the window of the stored stamp has elapsed (now >= stamp +
\* cooldown), whether the removal timer of that entry has fired (no entry is
\* left) or not (the old entry is still stored), the next check for the same
\* handler and user lets the request through, stamps the entry with the
\* current time and schedules a removal for now + cooldown.
C15_RestampAfterWindow ==
    [][\A s \in Slots :
        (/\ Routing(s)
         /\ Limited(s)
         /\ Stored(KeyOf(s), UserOf(s))
                => now >= cooldowns[KeyOf(s)][UserOf(s)] + WindowOf(s))
        => /\ slot'[s].pc = "awaiting"
           /\ slot'[s].invoked = 1
           /\ KeyOf(s) \in DOMAIN cooldowns'
           /\ UserOf(s) \in DOMAIN cooldowns'[KeyOf(s)]
           /\ cooldowns'[KeyOf(s)][UserOf(s)] = now
           /\ [key |-> KeyOf(s), userId |-> UserOf(s), due |-> now + WindowOf(s)]
                \in timers']_vars

\* The request was let through over an expired entry whose removal timer is
\* still pending.
C15_Witness ==
    \E s \in Slots :
        /\ slot[s].pc = "awaiting"
        /\ Limited(s)
        /\ Stored(KeyOf(s), UserOf(s))
        /\ cooldowns[KeyOf(s)][UserOf(s)] = now
        /\ \E stale \in timers :
            /\ stale.key = KeyOf(s) /\ stale.userId = UserOf(s)
            /\ stale.due <= now
        /\ [key |-> KeyOf(s), userId |-> UserOf(s), due |-> now + WindowOf(s)]
                \in timers

\* C16: for a handler whose cooldown is absent or 0, every check, however
\* many follow one another, lets the request through and does not touch the
\* cooldown store: no key, no entry, no timer.
C16_NoCooldownNoState ==
    [][\A s \in Slots :
        (Routing(s) /\ Registered(InterOf(s)) /\ ~Limited(s))
        => /\ slot'[s].pc = "awaiting"
           /\ slot'[s].invoked = 1
           /\ cooldowns' = cooldowns
           /\ timers' = timers
           /\ KeyOf(s) \notin DOMAIN cooldowns']_vars

\* The second of two requests, for the button whose cooldown is 0, has been
\* let through and the store is still empty.
C16_Witness ==
    \E s \in Slots :
        /\ slot[s].pc = "awaiting"
        /\ Registered(InterOf(s))
        /\ HandlerTypeOf(InterOf(s)) = "button"
        /\ ~Limited(s)
        /\ arrivals = 2
        /\ cooldowns = <<>>
        /\ timers = {}

\* The requests in slots s1 and s2 are two requests in flight of the same
\* user for the same handler with a cooldown, both past the cooldown check.
CheckedPair(s1, s2) ==
    /\ s1 # s2
    /\ slot[s1].pc \in {"awaiting", "done"} /\ Routed(s1)
    /\ slot[s2].pc \in {"awaiting", "done"} /\ Routed(s2)
    /\ Limited(s1) /\ Limited(s2)
    /\ KeyOf(s1) = KeyOf(s2)
    /\ UserOf(s1) = UserOf(s2)

ThrottleKeys ==
    {ThrottleKey(handlerType, handlerId) :
        handlerType \in HandlerTypes, handlerId \in HandlerIds}

----------------------------------------------------------------------------
(* The custom-id codec *)

ColonFree(str) == \A i \in 1..Len(str) : str[i] # ":"

\* C19: for a base id without a colon and any sequence of arguments without
\* colons (no argument, empty-string arguments), decoding the encoded token
\* gives back exactly the base id and the arguments, in number and order.
C19_RoundTrip ==
    (/\ call.op \in {"parsed", "matched"}
     /\ ColonFree(call.baseId)
     /\ \A i \in 1..Len(call.args) : ColonFree(call.args[i]))
    => call.parsed = [id |-> call.baseId, args |-> call.args]

\* "ab" with an empty-string argument followed by "b" went through
\* "ab::b" and came back.
C19_Witness ==
    /\ call.op = "parsed"
    /\ call.baseId = <<"a", "b">>
    /\ call.args = << <<>>, <<"b">> >>
    /\ call.token = <<"a", "b", ":", ":", "b">>
    /\ call.parsed = [id |-> <<"a", "b">>, args |-> << <<>>, <<"b">> >>]

\* C20: matchesCustomId(token, baseId) is true exactly when the token is the
\* base id, or is longer than the base id, agrees with it on its whole length
\* and has a colon right after it; a token that only has the base id as a
\* prefix does not match.
C20_MatchIff ==
    call.op = "matched"
    => (call.matched
        <=> \/ call.token = call.probe
            \/ /\ Len(call.token) > Len(call.probe)
               /\ \A i \in 1..Len(call.probe) : call.token[i] = call.probe[i]
               /\ call.token[Len(call.probe) + 1] = ":")

\* "ab" was matched against the base id "a" and did not match.
C20_Witness ==
    /\ call.op = "matched"
    /\ call.token = <<"a", "b">>
    /\ call.probe = <<"a">>
    /\ ~call.matched

ColonCount(str) == Cardinality({i \in 1..Len(str) : str[i] = ":"})

\* C21: the encoder returns the base id unchanged when there is no argument
\* and otherwise the base id, a colon and the arguments joined by colons; the
\* decoder splits the token on every colon: no segment contains a colon,
\* there is one argument per colon of the token, and the id followed by the
\* arguments, put together with colons again, is the token (so the id is the
\* empty string for the empty token and args is empty without a colon).
C21_EncodeDecodeShape ==
    call.op \in {"parsed", "matched"}
    => /\ Len(call.args) = 0 => call.token = call.baseId
       /\ Len(call.args) > 0
            => call.token = call.baseId \o <<":">> \o Join(call.args)
       /\ ColonFree(call.parsed.id)
       /\ \A i \in 1..Len(call.parsed.args) : ColonFree(call.parsed.args[i])
       /\ Len(call.parsed.args) = ColonCount(call.token)
       /\ Join(<<call.parsed.id>> \o call.parsed.args) = call.token

\* The token "::b" was decoded to the empty id and the arguments "" and "b".
C21_Witness ==
    /\ call.op = "parsed"
    /\ call.token = <<":", ":", "b">>
    /\ call.parsed = [id |-> <<>>, args |-> << <<>>, <<"b">> >>]

\* The colons in the arguments handed to the encoder.
ColonsIn(args) ==
    Cardinality({p \in (1..Len(args)) \X (1..MaxArgLen + 1) :
                    p[2] <= Len(args[p[1]]) /\ args[p[1]][p[2]] = ":"})

----------------------------------------------------------------------------
(* The handler registry *)

FilesOf(kind) ==
    IF IsSome(loading.modules[kind]) THEN Get(loading.modules[kind]) ELSE <<>>

\* The modules of a kind that load and carry the identifier and a callable
\* execute, by their place in the order of loading.
Carriers(kind, id) ==
    {i \in 1..Len(FilesOf(kind)) :
        /\ FilesOf(kind)[i].loads
        /\ FilesOf(kind)[i].identifier = Some(id)
        /\ FilesOf(kind)[i].execute = "function"}

Last(places) == CHOOSE i \in places : \A j \in places : j <= i

\* A population has completed and none is under way.
Populated == loading.runs >= 1 /\ loading.pending = {}

\* C23: in every state of the registry each stored descriptor is stored
\* under its own identifier, which is not empty, has a callable execute and
\* comes from a module of its kind; of several modules of one kind with the
\* same identifier the one loaded last is the one stored.
C23_RegistryWellFormed ==
    \A kind \in Kinds :
        \A id \in DOMAIN registry[kind] :
            /\ registry[kind][id].identifier = id
            /\ id # <<>>
            /\ registry[kind][id].execute = "function"
            /\ Carriers(kind, id) # {}
            /\ registry[kind][id].cooldown
                = FilesOf(kind)[Last(Carriers(kind, id))].cooldown

\* Two command modules named "a" were loaded, the second with a cooldown, and
\* the second is the one stored.
C23_Witness ==
    /\ Populated
    /\ FilesOf("commands")
        = <<Module(TRUE, Some(<<"a">>), "function", None),
            Module(TRUE, Some(<<"a">>), "function", Some(1))>>
    /\ DOMAIN registry["commands"] = {<<"a">>}
    /\ registry["commands"][<<"a">>].cooldown = Some(1)

\* C24: population is idempotent: once a population has completed, running
\* the same strategy again over the same modules (loadAll again, or
\* loadCommands for registerCommands) leaves every kind's entries, and so
\* every lookup and every count, as they were.
C24_PopulationIdempotent ==
    [][loading.runs >= 1 => registry' = registry]_vars

\* The commands directory, with two modules of the same name, has been
\* scanned by every loadAll and by registerCommands.
C24_Witness ==
    /\ loading.bun
    /\ loading.runs = MaxLoads
    /\ loading.registered
    /\ Len(FilesOf("commands")) = 2
    /\ Carriers("commands", <<"a">>) = {1, 2}
    /\ <<"a">> \in DOMAIN registry["commands"]

\* What the four scans of loadAll make of the modules, from empty maps.
ScannedRegistry(modules) ==
    [kind \in Kinds |-> loadKind(EmptyRegistry, kind, modules[kind])[kind]]

\* The registry the strategy that was not taken makes of the same modules.
OtherStrategy ==
    IF loading.bun THEN loadFromManifest(EmptyRegistry, loading.modules)
    ELSE ScannedRegistry(loading.modules)

LookupIds == {<<>>, <<"a">>, <<"b">>}

\* C25: a registry populated from the manifest and one populated by scanning
\* the directories, over the same handler modules (invalid ones, modules
\* that fail to load and modules with the same identifier included), answer
\* every lookup of every kind alike.
C25_StrategiesAgree ==
    Populated
    => \A kind \in Kinds, id \in LookupIds :
        MapGet(registry[kind], Some(id)) = MapGet(OtherStrategy[kind], Some(id))

\* C26: population tolerates bad input: after a population, whatever the
\* other modules and the other kinds are like, every module that loads and
\* has an identifier and a callable execute has its identifier registered in
\* its kind, and a kind whose location is missing has an empty mapping.
C26_BadInputTolerated ==
    Populated
    => \A kind \in Kinds :
        /\ ~IsSome(loading.modules[kind]) => registry[kind] = <<>>
        /\ \A i \in 1..Len(FilesOf(kind)) :
            (FilesOf(kind)[i].loads /\ Valid(FilesOf(kind)[i]))
            => Get(FilesOf(kind)[i].identifier) \in DOMAIN registry[kind]

----------------------------------------------------------------------------
(* Serving *)

\* Every lookup a request can make: a kind and an identifier.
Lookup(kind, id) ==
    CASE kind = "commands" -> getCommand(Some(id))
      [] kind = "buttons" -> getButton(Some(id))
      [] kind = "modals" -> getModal(Some(id))
      [] OTHER -> getSelect(Some(id))

\* C27: while requests are served, no step of any request (arrival,
\* verification, routing, the handler settling, the response leaving, the
\* clock, a cooldown timer) adds, removes or replaces an entry of the handler
\* registry, and the loader is not run again: every lookup of a kind and an
\* identifier gives after the step what it gave before it.
C27_RegistryImmutableWhileServing ==
    [][/\ registry' = registry
       /\ loading' = loading
       /\ \A kind \in Kinds, id \in HandlerIds : Lookup(kind, id)' = Lookup(kind, id)]_vars

\* Two requests have arrived, a handler has been invoked and has settled, and
\* the registry is the one the server started with.
C27_Witness ==
    /\ arrivals >= 2
    /\ \E s \in Slots : slot[s].pc = "done" /\ slot[s].invoked = 1
                        /\ slot[s].settled # ""
    /\ cooldowns # <<>>
    /\ registry = LoadedRegistry

----------------------------------------------------------------------------
(* Routing *)

\* The cooldown timers a first dispatch of the interaction leaves when the
\* descriptor of its own kind and identifier is the one that was used.
TimersOfOwnDescriptor(interaction) ==
    LET handlerType == HandlerTypeOf(interaction)
        identifier == IdentifierOf(interaction)
        descriptor == MapOf(handlerType)[identifier]
    IN  IF IsSome(descriptor.cooldown) /\ Get(descriptor.cooldown) > 0
        THEN {[key |-> ThrottleKey(handlerType, identifier),
               userId |-> UserIdOf(interaction),
               due |-> now + Get(descriptor.cooldown) * MsPerSecond]}
        ELSE {}

\* The values a component interaction carries, none when the field is absent.
ValuesOf(interaction) ==
    IF IsSome(Get(interaction.data).values)
    THEN Get(Get(interaction.data).values) ELSE <<>>

\* C28: routing is by kind and decoded base id only.  A command is looked up
\* by its name among the commands, a button component by the first segment of
\* its custom id among the buttons, a component of any other subtype by that
\* segment among the selects, a modal by that segment among the modals: a
\* handler is invoked exactly when that map has the identifier, whatever the
\* other maps hold, and the descriptor that acts is the one of that map (its
\* cooldown is the one applied).  The handler of a select receives the
\* interaction's values, the empty array when there are none; no other kind
\* receives values.
C28_RoutedByKind ==
    [][\A s \in Slots :
        Routing(s) =>
            LET interaction == InterOf(s) IN
            /\ (slot'[s].invoked = 1) <=> Registered(interaction)
            /\ slot'[s].invoked = 1 =>
                /\ slot'[s].handlerType = HandlerTypeOf(interaction)
                /\ slot'[s].handlerId = IdentifierOf(interaction)
                /\ timers' = TimersOfOwnDescriptor(interaction)
                /\ slot'[s].passed.values =
                      IF HandlerTypeOf(interaction) = "select"
                      THEN Some(ValuesOf(interaction)) ELSE None]_vars

\* A channel select "a" without values has reached the select "a", not the
\* button, the command or the modal of that name, with the empty array.
C28_Witness ==
    \E s \in Slots :
        /\ slot[s].pc = "awaiting"
        /\ InterOf(s).type = MessageComponentType
        /\ Get(InterOf(s).data).component_type = ChannelSelectComponent
        /\ Get(InterOf(s).data).values = None
        /\ slot[s].handlerType = "select" /\ slot[s].handlerId = <<"a">>
        /\ <<"a">> \in DOMAIN registry.buttons \cap DOMAIN registry.commands
        /\ slot[s].passed.values = Some(<<>>)
        /\ \E tm \in timers : tm.due = 3 * MsPerSecond

\* The places of a submission, a row and a position in it, that hold a text
\* input with an identifier and a value; an empty string is no identifier and
\* no value.
RowsOf(interaction) ==
    IF IsSome(Get(interaction.data).components)
    THEN Get(Get(interaction.data).components) ELSE <<>>

TextInputsOf(interaction) ==
    LET rows == RowsOf(interaction) IN
    {pl \in (1..Len(rows)) \X (1..MaxFields + 1) :
        /\ IsSome(rows[pl[1]].components)
        /\ pl[2] <= Len(Get(rows[pl[1]].components))
        /\ LET component == Get(rows[pl[1]].components)[pl[2]] IN
           /\ component.type = 4
           /\ component.custom_id \notin {None, Some("")}
           /\ component.value \notin {None, Some("")}}

At(interaction, pl) == Get(RowsOf(interaction)[pl[1]].components)[pl[2]]

Before(p, q) == p[1] < q[1] \/ (p[1] = q[1] /\ p[2] <= q[2])

\* C29: the mapping passed to the handler of a modal has one key for every
\* identifier carried by a text input (type 4) with an identifier and a
\* value, in whichever action row, and no other key; the value under a key is
\* the submitted value of the text input of that identifier (of the last one
\* when several carry it).  Components of another type, text inputs without
\* a value and rows without components add nothing; without components the
\* mapping is empty.
C29_ModalFields ==
    \A s \in Slots :
        (slot[s].invoked = 1 /\ InterOf(s).type = ModalSubmitType) =>
            LET interaction == InterOf(s)
                inputs == TextInputsOf(interaction)
                fields == Get(slot[s].passed.fields)
            IN  /\ IsSome(slot[s].passed.fields)
                /\ DOMAIN fields = {Get(At(interaction, pl).custom_id) : pl \in inputs}
                /\ \A id \in DOMAIN fields :
                      \E pl \in inputs :
                          /\ Get(At(interaction, pl).custom_id) = id
                          /\ fields[id] = Get(At(interaction, pl).value)
                          /\ \A q \in inputs :
                                Get(At(interaction, q).custom_id) = id => Before(q, pl)
                /\ (RowsOf(interaction) = <<>> => fields = <<>>)

\* A modal was submitted with a first row holding a text input "f" = "x" and a
\* string select with an identifier and a value, and a second row holding a
\* text input "g"; its handler received f and g and nothing else.
C29_Witness ==
    \E s \in Slots :
        /\ slot[s].pc = "awaiting"
        /\ InterOf(s).type = ModalSubmitType
        /\ Len(RowsOf(InterOf(s))) = 2
        /\ RowsOf(InterOf(s))[1].components
              = Some(<<Component(TextInput, Some("f"), Some("x")),
                       Component(StringSelectComponent, Some("f"), Some("x"))>>)
        /\ RowsOf(InterOf(s))[2].components
              = Some(<<Component(TextInput, Some("g"), Some("x"))>>)
        /\ slot[s].passed.fields = Some(("f" :> "x") @@ ("g" :> "x"))

----------------------------------------------------------------------------
(* The user of a request *)

\* The direct user id of an interaction when it has one, the member's
\* otherwise.
DirectOrMember(interaction) ==
    IF interaction.user # None THEN interaction.user ELSE interaction.member

\* C30: for a request of any of the four kinds that names a handler with a
\* cooldown, the throttle is asked about the direct user id when the
\* interaction has one and about the member's user id otherwise: the request
\* is turned away exactly when that id has a stamp within the window under
\* the handler's key, and when it is let through the stamp is stored under
\* that id.  Hence a request from a guild and one from a direct message by
\* the same user id for the same handler share one window.
C30_UserIdDirectThenMember ==
    [][\A s \in ConcSlots :
        (Routing(s) /\ Limited(s)) =>
            LET userId == DirectOrMember(InterOf(s)) IN
            /\ (slot'[s].invoked = 0)
                  <=> (/\ Stored(KeyOf(s), userId)
                       /\ now < cooldowns[KeyOf(s)][userId] + WindowOf(s))
            /\ slot'[s].invoked = 1 =>
                  /\ KeyOf(s) \in DOMAIN cooldowns'
                  /\ userId \in DOMAIN cooldowns'[KeyOf(s)]
                  /\ cooldowns'[KeyOf(s)][userId] = now
                  /\ DOMAIN cooldowns'[KeyOf(s)]
                        = {userId} \cup (IF KeyOf(s) \in DOMAIN cooldowns
                                         THEN DOMAIN cooldowns[KeyOf(s)] ELSE {})]_vars

\* A request from a guild (member.user "u1") is with its handler while a
\* request from a direct message (user "u1") for the same handler has been
\* turned away for the whole window.
C30_Witness ==
    \E s1, s2 \in ConcSlots :
        /\ s1 # s2
        /\ Routed(s1) /\ Routed(s2)
        /\ Limited(s1) /\ Limited(s2)
        /\ slot[s1].pc = "awaiting" /\ slot[s1].invoked = 1
        /\ InterOf(s1).user = None /\ InterOf(s1).member = Some("u1")
        /\ slot[s2].pc = "done" /\ slot[s2].invoked = 0
        /\ InterOf(s2).user = Some("u1") /\ InterOf(s2).member = None
        /\ HandlerTypeOf(InterOf(s1)) = HandlerTypeOf(InterOf(s2))
        /\ IdentifierOf(InterOf(s1)) = IdentifierOf(InterOf(s2))
        /\ RespOf(s2).body.tag = "slowdown"
        /\ KeyOf(s1) \in DOMAIN cooldowns
        /\ DOMAIN cooldowns[KeyOf(s1)] = {Some("u1")}

----------------------------------------------------------------------------
(* The signature verifier *)

\* C31: the signature of a key pair over timestamp + body verifies under the
\* pair's public key with that timestamp and that body; with one byte of the
\* signature, of the body or of the timestamp changed, the verification
\* returns false.
C31_SignVerify ==
    call.op = "verified" =>
        /\ call.changed = "nothing" => call.result = "true"
        /\ call.changed \in {"signature byte", "body byte", "timestamp byte"}
              => call.result = "false"

\* A request was signed, one byte of its timestamp was changed, and the
\* verification has returned false.
C31_Witness ==
    /\ call.op = "verified"
    /\ call.changed = "timestamp byte"
    /\ call.signature = ToHex(SignDetached(call.secretKey, <<"1", "1">> \o call.rawBody))
    /\ call.timestamp = <<"1", "2">>
    /\ call.result = "false"

\* C32: the verification returns false, and never throws, when the signature
\* or the public key is malformed hex or has the wrong length.
C32_MalformedIsFalse ==
    (/\ call.op = "verified"
     /\ call.changed \in {"signature hex", "signature length", "key hex", "key length"})
    => call.result = "false"

----------------------------------------------------------------------------
(* Invocation *)

\* C33: per request the handler is invoked at most once, and only by the
\* routing step; from the invocation until the handler settles the request
\* has no response, and no step but the handler's settling (not the passing
\* of time either) ends the wait; when the handler returns, the response is
\* status 200 with exactly the payload it returned.
C33_InvokedOnceAndAwaited ==
    [][\A s \in Slots :
        /\ slot'[s].invoked <= 1
        /\ slot'[s].invoked > slot[s].invoked => Routing(s)
        /\ slot[s].pc = "awaiting" => slot[s].invoked = 1 /\ slot[s].resp = None
        /\ (slot[s].pc = "awaiting" /\ slot'[s] # slot[s]) =>
              /\ slot'[s].pc = "done"
              /\ slot'[s].settled # ""
              /\ slot'[s].invoked = 1
              /\ slot'[s].settled = "return" =>
                    /\ IsSome(slot'[s].returned)
                    /\ slot'[s].resp = Some([status |-> 200,
                                             body |-> Get(slot'[s].returned)])]_vars

\* A handler was invoked and its non-ephemeral payload has become the
\* response, two seconds or more after the cooldown check of the request.
C33_Witness ==
    \E s \in Slots :
        /\ slot[s].pc = "done" /\ slot[s].invoked = 1
        /\ slot[s].settled = "return"
        /\ IsSome(slot[s].returned) /\ Get(slot[s].returned).flags = 0
        /\ RespOf(s).status = 200 /\ RespOf(s).body = Get(slot[s].returned)
        /\ Stored(KeyOf(s), UserOf(s))
        /\ now >= cooldowns[KeyOf(s)][UserOf(s)] + 2 * MsPerSecond

----------------------------------------------------------------------------
(* Command registration *)

Is2xx(status) == status \in 200..299

\* C34: when the platform's API answers the bulk overwrite or the creation
\* of a command with a status outside 200..299, the call throws an error
\* that carries that status and the text of that body, and registerCommands
\* throws the same error on to its caller; when the answer is 2xx (with a
\* body that is JSON) the two API functions return the parsed body.
C34_RegistrationFailurePropagates ==
    call.op = "settled" =>
        /\ ~Is2xx(call.answer.status) =>
              /\ call.outcome.kind = "throw"
              /\ call.outcome.status = call.answer.status
              /\ call.outcome.text = Some(call.answer.text)
              /\ call.outcome.error =
                    (IF call.function = "createGlobalCommand"
                     THEN "Failed to create command"
                     ELSE "Failed to bulk register commands")
        /\ (/\ Is2xx(call.answer.status)
            /\ call.answer.text.json # None
            /\ call.function # "registerCommands") =>
              call.outcome = [kind |-> "return", value |-> call.answer.text.json,
                              error |-> "", status |-> 0, text |-> None]

\* registerCommands met a 429 with a JSON body and its caller has the error
\* of bulkOverwriteGlobalCommands, with the status and the body text.
C34_Witness ==
    /\ call.op = "settled"
    /\ call.function = "registerCommands"
    /\ call.answer.status = 429
    /\ call.answer.text.json # None
    /\ call.outcome.kind = "throw"
    /\ call.outcome.status = 429
    /\ call.outcome.text = Some(call.answer.text)

----------------------------------------------------------------------------
(* Cooldown windows *)

\* C35: two checks for the same (kind, identifier, user) that both report
\* not-on-cooldown are at least the cooldown apart, however checks and timer
\* firings interleave.  A check that reports not-on-cooldown leaves a timer
\* due at the end of its window, so this is: as long as the window of such a
\* check has not ended, its entry is stored (and the next check is on
\* cooldown); in particular the timer of an earlier entry does not remove a
\* later entry of the same user.
C35_EntryKeptForItsWindow ==
    \A tm \in timers :
        now < tm.due => Stored(tm.key, tm.userId)

\* Identifiers with and without underscores.
KeyIdentifiers == UNION {[1..n -> {"a", "b", "_"}] : n \in 0..(MaxIdLen + 1)}

\* Two handlers have one throttle key only when they are one handler.
KeyInjective ==
    \A t1, t2 \in HandlerTypes : \A i1, i2 \in KeyIdentifiers :
        ThrottleKey(t1, i1) = ThrottleKey(t2, i2) => (t1 = t2 /\ i1 = i2)

\* C36: cooldown windows are independent per (kind, identifier, user).  The
\* throttle key of a kind and an identifier is the key of no other kind and
\* identifier (button "a" and select "a", command "a_b" and anything else);
\* the check of a request leaves every entry but the one of its own kind,
\* identifier and user as it was, stored or not and with its stamp, and its
\* result depends on that one entry only.
C36_WindowsIndependent ==
    [][/\ KeyInjective
       /\ \A s \in Slots :
            Routing(s) =>
                /\ \A key \in ThrottleKeys, userId \in UserIds :
                      (~Limited(s) \/ <<key, userId>> # <<KeyOf(s), UserOf(s)>>) =>
                          /\ Stored(key, userId)' <=> Stored(key, userId)
                          /\ Stored(key, userId) =>
                                cooldowns'[key][userId] = cooldowns[key][userId]
                /\ Limited(s) =>
                      ((slot'[s].invoked = 0)
                          <=> (/\ Stored(KeyOf(s), UserOf(s))
                               /\ now < cooldowns[KeyOf(s)][UserOf(s)] + WindowOf(s)))]_vars

\* User u1 is within the window of button "a", and the select "a" has just
\* been invoked for the same user.
C36_Witness ==
    \E s \in Slots :
        /\ slot[s].pc = "awaiting" /\ slot[s].invoked = 1
        /\ slot[s].handlerType = "select" /\ slot[s].handlerId = <<"a">>
        /\ UserOf(s) = Some("u1")
        /\ Stored(ThrottleKey("button", <<"a">>), Some("u1"))
        /\ Stored(ThrottleKey("select", <<"a">>), Some("u1"))
        /\ now < cooldowns[ThrottleKey("button", <<"a">>)][Some("u1")] + MsPerSecond

\* No user has an entry under any throttle key.
NoEntries == \A key \in DOMAIN cooldowns : cooldowns[key] = <<>>

\* C37: cooldown entries expire by themselves.  In every reachable state
\* each stored entry of a user has a pending removal timer for its throttle
\* key and user; and, timers firing fairly, from some point on (the requests
\* being finitely many) no entry is stored any more.
C37_EntriesSelfExpire ==
    /\ [](\A key \in DOMAIN cooldowns : \A userId \in DOMAIN cooldowns[key] :
            \E tm \in timers : tm.key = key /\ tm.userId = userId)
    /\ <>[]NoEntries

\* Both requests have been served, both passed their check, and the timers
\* have removed every entry.
C37_Witness ==
    /\ arrivals >= 2
    /\ \A s \in Slots : slot[s].pc = "idle"
    /\ Cardinality(DOMAIN cooldowns) >= 1
    /\ NoEntries
    /\ timers = {}
    /\ now >= 2 * MsPerSecond

----------------------------------------------------------------------------
(* Matching and decoding *)

\* C38: for every token and every base id without a colon, the empty one
\* included, matchesCustomId(token, baseId) is true exactly when the id
\* parseCustomId decodes from the token is that base id; so among the
\* registered identifiers of a kind the ones the token matches are the one
\* the route looks up, if it is registered, and no other.
C38_MatchAgreesWithParse ==
    (call.op = "matched" /\ ColonFree(call.probe)) =>
        /\ call.matched <=> (call.parsed.id = call.probe)
        /\ \A kind \in Kinds :
              {id \in DOMAIN registry[kind] : matchesCustomId(call.token, id)}
                 = {call.parsed.id} \cap DOMAIN registry[kind]

\* The token ":a", of the empty base id, was matched against the empty base
\* id and matched, and decodes to the empty id.
C38_Witness ==
    /\ call.op = "matched"
    /\ call.token = <<":", "a">>
    /\ call.probe = <<>>
    /\ call.matched
    /\ call.parsed.id = <<>>

----------------------------------------------------------------------------
(* The empty identifier *)

\* The interaction names the empty handler: a component or a modal whose
\* custom id is empty or begins with a colon, or a command whose name is
\* empty.
NamesEmpty(interaction) ==
    /\ Dispatchable(interaction)
    /\ HasIdentifier(interaction)
    /\ LET id == Get(Get(interaction.data).id)
       IN  IF interaction.type = ApplicationCommandType THEN id = <<>>
           ELSE id = <<>> \/ id[1] = ":"

\* C39: no population of the registry inserts a descriptor under the empty
\* identifier; a verified message component or modal submit whose custom id
\* is empty or begins with a colon decodes to the empty base id, and such a
\* request, like a command with the empty name, is never handed to a handler:
\* once routed it is answered 200 with the message of the unknown handler.
C39_EmptyIdNeverDispatched ==
    /\ \A kind \in Kinds : <<>> \notin DOMAIN registry[kind]
    /\ \A s \in Slots :
          (Routed(s) /\ NamesEmpty(InterOf(s))) =>
              /\ InterOf(s).type # ApplicationCommandType
                    => parseCustomId(Get(Get(InterOf(s).data).id)).id = <<>>
              /\ slot[s].pc \in {"verified", "done"}
              /\ slot[s].invoked = 0
              /\ slot[s].pc = "done" =>
                    /\ RespOf(s).status = 200
                    /\ RespOf(s).body.tag = "unknown"

\* A button with the custom id ":a" was pressed on a server whose buttons
\* directory holds a module with the empty customId beside the module "a",
\* and was answered as unknown.
C39_Witness ==
    \E s \in Slots :
        /\ Routed(s)
        /\ slot[s].pc = "done"
        /\ InterOf(s).type = MessageComponentType
        /\ HasIdentifier(InterOf(s))
        /\ Get(Get(InterOf(s).data).id) = <<":", "a">>
        /\ Get(InterOf(s).data).component_type = ButtonComponent
        /\ IsSome(loading.modules.buttons)
        /\ \E i \in 1..Len(Get(loading.modules.buttons)) :
              Get(loading.modules.buttons)[i].identifier = Some(<<>>)
        /\ <<"a">> \in DOMAIN registry.buttons
        /\ RespOf(s).body.tag = "unknown"

====
